---- MODULE Spec2Model ----
(***************************************************************************)
(* A model of sciluigi/containertask.py: the ContainerHelpers mixin that   *)
(* maps host paths to container paths, renders a command template and      *)
(* runs it through one of three backends (docker, singularity under slurm, *)
(* AWS batch).                                                             *)
(*                                                                         *)
(* Python strings are modelled as sequences of one-character strings, so   *)
(* that os.path.commonprefix (character-wise), os.path.relpath, urlsplit   *)
(* and string.Template are computed the way the library computes them.     *)
(* Python dicts whose iteration order is observable (the mount table) are  *)
(* sequences of entries in insertion order; the path and parameter dicts   *)
(* are functions from keys to values.                                      *)
(***************************************************************************)
EXTENDS Integers, Sequences, FiniteSets, TLC

(***************************************************************************)
(* Python str primitives                                                   *)
(***************************************************************************)
Take(s, n) == SubSeq(s, 1, n)

Drop(s, n) == SubSeq(s, n + 1, Len(s))

StartsWith(s, p) == Len(p) <= Len(s) /\ Take(s, Len(p)) = p

EndsWith(s, p) == Len(p) <= Len(s) /\ Drop(s, Len(s) - Len(p)) = p

\* str.find(ch) + 1: the first position of ch in s, 0 when absent
Find(s, ch) ==
  IF \E i \in 1..Len(s) : s[i] = ch
  THEN CHOOSE i \in 1..Len(s) : s[i] = ch /\ \A j \in 1..(i - 1) : s[j] # ch
  ELSE 0

\* str.rfind(ch) + 1: the last position of ch in s, 0 when absent
RFind(s, ch) ==
  IF \E i \in 1..Len(s) : s[i] = ch
  THEN CHOOSE i \in 1..Len(s) : s[i] = ch /\ \A j \in (i + 1)..Len(s) : s[j] # ch
  ELSE 0

\* the first position at which the substring sub starts in s, 0 when absent
FindSub(s, sub) ==
  LET hits == {i \in 1..(Len(s) - Len(sub) + 1) : SubSeq(s, i, i + Len(sub) - 1) = sub}
  IN IF hits = {} THEN 0 ELSE CHOOSE i \in hits : \A j \in hits : i <= j

RECURSIVE RStrip(_, _)
\* str.rstrip(ch)
RStrip(s, ch) ==
  IF s # <<>> /\ s[Len(s)] = ch THEN RStrip(Take(s, Len(s) - 1), ch) ELSE s

RECURSIVE LStrip(_, _)
\* str.lstrip(ch)
LStrip(s, ch) ==
  IF s # <<>> /\ s[1] = ch THEN LStrip(Drop(s, 1), ch) ELSE s

\* str.strip(ch)
Strip(s, ch) == RStrip(LStrip(s, ch), ch)

RECURSIVE Split(_, _)
\* str.split(ch): the components between occurrences of ch, empty ones kept
Split(s, ch) ==
  LET i == Find(s, ch)
  IN IF i = 0 THEN <<s>> ELSE <<Take(s, i - 1)>> \o Split(Drop(s, i), ch)

RECURSIVE JoinWith(_, _)
\* ch.join(parts)
JoinWith(parts, ch) ==
  IF parts = <<>> THEN <<>>
  ELSE IF Len(parts) = 1 THEN parts[1]
  ELSE parts[1] \o <<ch>> \o JoinWith(Tail(parts), ch)

\* the entries of a list that are not in drop, in order
RECURSIVE Filter(_, _)
Filter(parts, drop) ==
  IF parts = <<>> THEN <<>>
  ELSE (IF parts[1] \in drop THEN <<>> ELSE <<parts[1]>>) \o Filter(Tail(parts), drop)

\* the number of leading positions at which all the sequences of S agree
CommonLen(S) ==
  IF S = {} THEN 0
  ELSE LET s == CHOOSE x \in S : TRUE
           ok(n) == \A x \in S : Len(x) >= n /\ Take(x, n) = Take(s, n)
       IN CHOOSE n \in 0..Len(s) : ok(n) /\ (n = Len(s) \/ ~ok(n + 1))

(***************************************************************************)
(* posixpath                                                               *)
(***************************************************************************)
Sep == "/"

DotDot == <<".", ".">>

Dot == <<".">>

IsAbs(p) == StartsWith(p, <<Sep>>)

\* os.path.commonprefix: character-wise longest common prefix (min and max
\* of the list agree exactly on the prefix every element shares)
CommonPrefix(S) ==
  IF S = {} THEN <<>> ELSE Take(CHOOSE x \in S : TRUE, CommonLen(S))

\* os.path.dirname
Dirname(p) ==
  LET head == Take(p, RFind(p, Sep))
  IN IF head # <<>> /\ LStrip(head, Sep) # <<>> THEN RStrip(head, Sep) ELSE head

\* os.path.basename
Basename(p) == Drop(p, RFind(p, Sep))

\* os.path.join(a, b)
Join(a, b) ==
  IF IsAbs(b) THEN b
  ELSE IF a = <<>> \/ EndsWith(a, <<Sep>>) THEN a \o b
  ELSE a \o <<Sep>> \o b

RECURSIVE NormComps(_, _, _)
\* the loop of os.path.normpath over the split components
NormComps(comps, acc, rooted) ==
  IF comps = <<>> THEN acc
  ELSE LET c == comps[1]
           rest == Tail(comps)
       IN IF c = <<>> \/ c = Dot THEN NormComps(rest, acc, rooted)
          ELSE IF c # DotDot \/ (~rooted /\ acc = <<>>)
                  \/ (acc # <<>> /\ acc[Len(acc)] = DotDot)
               THEN NormComps(rest, Append(acc, c), rooted)
          ELSE IF acc # <<>> THEN NormComps(rest, Take(acc, Len(acc) - 1), rooted)
          ELSE NormComps(rest, acc, rooted)

\* os.path.normpath
NormPath(p) ==
  IF p = <<>> THEN Dot
  ELSE LET slashes == IF ~IsAbs(p) THEN 0
                      ELSE IF StartsWith(p, <<Sep, Sep>>) /\ ~StartsWith(p, <<Sep, Sep, Sep>>)
                           THEN 2 ELSE 1
           body == JoinWith(NormComps(Split(p, Sep), <<>>, slashes > 0), Sep)
           out == [i \in 1..slashes |-> Sep] \o body
       IN IF out = <<>> THEN Dot ELSE out

\* os.path.abspath, with the process working directory cwd
AbsPath(p, cwd) == NormPath(IF IsAbs(p) THEN p ELSE Join(cwd, p))

\* len(commonprefix([start_list, path_list])) of os.path.relpath
SharedLen(start_list, path_list, m) ==
  CHOOSE n \in 0..m :
    /\ Take(start_list, n) = Take(path_list, n)
    /\ (n = m \/ start_list[n + 1] # path_list[n + 1])

\* rel_list of os.path.relpath: one '..' per component of start_list left
\* after the first i, then the components of path_list after the first i
RelList(start_list, path_list, i) ==
  [k \in 1..(Len(start_list) - i) |-> DotDot] \o Drop(path_list, i)

\* the last lines of os.path.relpath
RelJoin(rel_list) == IF rel_list = <<>> THEN Dot ELSE JoinWith(rel_list, Sep)

\* os.path.relpath on the component lists of the two absolute paths
RelOfLists(start_list, path_list) ==
  RelJoin(RelList(start_list, path_list,
                  SharedLen(start_list, path_list,
                            IF Len(start_list) < Len(path_list)
                            THEN Len(start_list) ELSE Len(path_list))))

\* os.path.relpath(path, start); path is never empty in the calls modelled
RelPath(path, start, cwd) ==
  RelOfLists(Filter(Split(AbsPath(start, cwd), Sep), {<<>>}),
             Filter(Split(AbsPath(path, cwd), Sep), {<<>>}))

\* os.path.commonpath of a non-empty list of absolute paths (an empty list
\* raises ValueError, which the caller of this operator models)
CommonPath(S) ==
  LET comps(p) == Filter(Split(p, Sep), {<<>>, Dot})
      L == {comps(p) : p \in S}
  IN <<Sep>> \o JoinWith(Take(CHOOSE x \in L : TRUE, CommonLen(L)), Sep)

(***************************************************************************)
(* urllib.parse.urlsplit: the scheme, netloc and path of a URL (the model's *)
(* paths hold no '?' or '#', so query and fragment are always empty)       *)
(***************************************************************************)
Letters ==
  {"a", "b", "c", "d", "e", "f", "g", "h", "i", "j", "k", "l", "m",
   "n", "o", "p", "q", "r", "s", "t", "u", "v", "w", "x", "y", "z"}

Digits == {"0", "1", "2", "3", "4", "5", "6", "7", "8", "9"}

SchemeChars == Letters \cup Digits \cup {"+", "-", "."}

urlsplit(url) ==
  LET i == Find(url, ":")
      hasScheme == /\ i > 1
                   /\ url[1] \in Letters
                   /\ \A j \in 1..(i - 1) : url[j] \in SchemeChars
      scheme == IF hasScheme THEN Take(url, i - 1) ELSE <<>>
      rest == IF hasScheme THEN Drop(url, i) ELSE url
      hasNet == StartsWith(rest, <<Sep, Sep>>)
      after == Drop(rest, 2)
      delim == IF Find(after, Sep) = 0 THEN Len(after) + 1 ELSE Find(after, Sep)
  IN [scheme |-> scheme,
      netloc |-> IF hasNet THEN Take(after, delim - 1) ELSE <<>>,
      path |-> IF hasNet THEN Drop(after, delim - 1) ELSE rest]

(***************************************************************************)
(* string.Template: substitute (strict) and safe_substitute (lenient).     *)
(* The result is [err, out]: err is "" on success, else the exception      *)
(* class that substitute raises.                                           *)
(***************************************************************************)
IdStart == Letters \cup {"_"}

IdChars == IdStart \cup Digits

\* the length of the longest run of identifier characters at the head of s
IdLen(s) ==
  CHOOSE n \in 0..Len(s) :
    /\ \A j \in 1..n : s[j] \in IdChars
    /\ (n = Len(s) \/ s[n + 1] \notin IdChars)

RECURSIVE Render(_, _, _)
Render(t, d, strict) ==
  IF t = <<>> THEN [err |-> "", out |-> <<>>]
  ELSE IF t[1] # "$"
  THEN LET r == Render(Tail(t), d, strict)
       IN [err |-> r.err, out |-> IF r.err = "" THEN <<t[1]>> \o r.out ELSE <<>>]
  ELSE LET rest == Tail(t)
           escaped == rest # <<>> /\ rest[1] = "$"
           named == rest # <<>> /\ rest[1] \in IdStart
           inner == Drop(rest, 1)
           braced == /\ rest # <<>> /\ rest[1] = "{"
                     /\ inner # <<>> /\ inner[1] \in IdStart
                     /\ IdLen(inner) < Len(inner) /\ inner[IdLen(inner) + 1] = "}"
           name == IF named THEN Take(rest, IdLen(rest)) ELSE Take(inner, IdLen(inner))
           group == IF named THEN <<"$">> \o name ELSE <<"$", "{">> \o name \o <<"}">>
           after == IF named THEN Drop(rest, IdLen(rest)) ELSE Drop(inner, IdLen(inner) + 1)
       IN IF escaped
          THEN LET r == Render(Drop(rest, 1), d, strict)
               IN [err |-> r.err, out |-> IF r.err = "" THEN <<"$">> \o r.out ELSE <<>>]
          ELSE IF named \/ braced
          THEN IF name \in DOMAIN d
               THEN LET r == Render(after, d, strict)
                    IN [err |-> r.err, out |-> IF r.err = "" THEN d[name] \o r.out ELSE <<>>]
               ELSE IF strict THEN [err |-> "KeyError", out |-> <<>>]
               ELSE LET r == Render(after, d, strict)
                    IN [err |-> r.err, out |-> group \o r.out]
          ELSE IF strict THEN [err |-> "ValueError", out |-> <<>>]
          ELSE LET r == Render(rest, d, strict)
               IN [err |-> r.err, out |-> <<"$">> \o r.out]

\* a strict rendering that tolerates what it cannot replace
substitute_lenient(t, d) == Render(t, d, FALSE)

\* Template(t).substitute(d)
substitute(t, d) == Render(t, d, TRUE)

\* Template(t).safe_substitute(d)
safe_substitute(t, d) == Render(t, d, FALSE)

\* dict.update: the entries of e override those of d
Update(d, e) ==
  [k \in DOMAIN d \cup DOMAIN e |-> IF k \in DOMAIN e THEN e[k] ELSE d[k]]

(***************************************************************************)
(* ContainerHelpers: the pure helpers                                      *)
(***************************************************************************)
\* the pair returned with every path flattened to its file name
map_flat_from_prefix(paths, container_base_path, cwd, common_prefix) ==
  <<AbsPath(common_prefix, cwd),
    [i \in DOMAIN paths |-> Join(container_base_path, Basename(paths[i]))]>>

\* lines 123-129: the pair returned for a common prefix
map_from_prefix(paths, container_base_path, cwd, common_prefix) ==
  <<AbsPath(common_prefix, cwd),
    [i \in DOMAIN paths |->
       Join(container_base_path, RelPath(paths[i], common_prefix, cwd))]>>

\* map_paths_to_container with the common prefix taken over the paths
\* themselves instead of their parent directories
map_paths_no_dirname(paths, container_base_path, cwd) ==
  map_from_prefix(paths, container_base_path, cwd,
                  CommonPrefix({paths[i] : i \in DOMAIN paths}))

\* map_paths_to_container: <<common ancestor, container paths>>
map_paths_to_container(paths, container_base_path, cwd) ==
  map_from_prefix(paths, container_base_path, cwd,
                  CommonPrefix({Dirname(paths[i]) : i \in DOMAIN paths}))

\* make_fs_name: the image reference without its scheme, every character
\* other than a letter, a digit, '.' and '_' replaced by '_'
make_fs_name(uri) ==
  LET i == FindSub(uri, <<":", Sep, Sep>>)
      tail == IF i = 0 THEN uri ELSE Drop(uri, i + 2)
      j == FindSub(tail, <<":", Sep, Sep>>)
      name == IF i = 0 THEN uri ELSE IF j = 0 THEN tail ELSE Take(tail, j - 1)
  IN [k \in 1..Len(name) |->
        IF name[k] \in Letters \cup Digits \cup {".", "_"} THEN name[k] ELSE "_"]

(***************************************************************************)
(* String constants of the source, and the values the calls are drawn from *)
(***************************************************************************)
MntInputs == <<"/", "m", "n", "t", "/", "i", "n", "p", "u", "t", "s">>  \* "/mnt/inputs" (container base of the inputs, lines 204 and 623)

MntOutputs == <<"/", "m", "n", "t", "/", "o", "u", "t", "p", "u", "t", "s">>  \* "/mnt/outputs" (container base of the outputs, lines 196 and 615)

MntDefault == <<"/", "m", "n", "t">>  \* "/mnt" (default container_base_path, line 109)

MntInputsFs == <<"/", "m", "n", "t", "/", "i", "n", "p", "u", "t", "s", "/", "f", "s", "/">>  \* "/mnt/inputs/fs/" (line 363)

MntInputsS3 == <<"/", "m", "n", "t", "/", "i", "n", "p", "u", "t", "s", "/", "s", "3", "/">>  \* "/mnt/inputs/s3/" (line 376)

MntOutputsFs == <<"/", "m", "n", "t", "/", "o", "u", "t", "p", "u", "t", "s", "/", "f", "s", "/">>  \* "/mnt/outputs/fs/" (line 427)

MntOutputsS3 == <<"/", "m", "n", "t", "/", "o", "u", "t", "p", "u", "t", "s", "/", "s", "3", "/">>  \* "/mnt/outputs/s3/" (line 440)

ImgSuffix == <<".", "s", "i", "n", "g", "u", "l", "a", "r", "i", "t", "y", ".", "i", "m", "g">>  \* ".singularity.img" (line 222)

JobDefPrefix == <<"s", "l", "_", "c", "o", "n", "t", "a", "i", "n", "e", "r", "t", "a", "s", "k", "_", "_">>  \* "sl_containertask__" (line 449)

SchemeS3 == <<"s", "3">>  \* "s3"

SchemeFile == <<"f", "i", "l", "e">>  \* "file"

ModeRo == <<"r", "o">>  \* "ro"

ModeRw == <<"r", "w">>  \* "rw"

Ka == <<"a">>  \* "a" (logical keys)

Kb == <<"b">>  \* "b"

Kc == <<"c">>  \* "c"

Kp == <<"p">>  \* "p"

PDataX == <<"/", "d", "a", "t", "a", "/", "x", ".", "t", "x", "t">>  \* "/data/x.txt" (host paths)

PDataOutY == <<"/", "d", "a", "t", "a", "/", "o", "u", "t", "/", "y", ".", "t", "x", "t">>  \* "/data/out/y.txt"

PDX == <<"/", "d", "/", "x">>  \* "/d/x"

PDY == <<"/", "d", "/", "y">>  \* "/d/y"

PDOY == <<"/", "d", "/", "o", "/", "y">>  \* "/d/o/y"

PDAbX == <<"/", "d", "/", "a", "b", "/", "x">>  \* "/d/ab/x"

PDAcY == <<"/", "d", "/", "a", "c", "/", "y">>  \* "/d/ac/y"

PDAZ == <<"/", "d", "/", "a", "/", "z">>  \* "/d/a/z"

PRel == <<"r", "/", "x">>  \* "r/x"

PS3In == <<"s", "3", ":", "/", "/", "k", "/", "i", "/", "x">>  \* "s3://k/i/x"

PS3Out == <<"s", "3", ":", "/", "/", "k", "/", "o", "/", "y">>  \* "s3://k/o/y"

PFtp == <<"f", "t", "p", ":", "/", "/", "h", "/", "f">>  \* "ftp://h/f"

PFileX == <<"f", "i", "l", "e", ":", "/", "/", "/", "d", "/", "x">>  \* "file:///d/x"

TplCat == <<"c", "a", "t", " ", "$", "{", "a", "}", " ", ">", " ", "$", "{", "b", "}">>  \* "cat ${a} > ${b}" (command templates)

TplEcho == <<"e", "c", "h", "o", " ", "$", "{", "a", "}", " ", "$", "{", "b", "}">>  \* "echo ${a} ${b}"

TplRun == <<"r", "u", "n", " ", "$", "p", " ", "$", "{", "a", "}">>  \* "run $p ${a}"

ValX == <<"/", "x">>  \* "/x" (extra parameter values)

ValV == <<"v">>  \* "v"

ImgA == <<"d", "o", "c", "k", "e", "r", ":", "/", "/", "u", "/", "i">>  \* "docker://u/i" (image references)

RoleA == <<"a", "r", "n">>  \* "arn" (job role)

ScratchA == <<"s", "3", ":", "/", "/", "k", "/", "t", "/">>  \* "s3://k/t/" (aws_s3_scratch_loc)

CacheA == <<"/", "c">>  \* "/c" (container_cache)

CwdA == <<"/", "w">>  \* "/w" (the working directory of the process at start)

HostRef == <<"/", "r", "e", "f">>  \* "/ref" (hosts of descriptor mounts)

BindRef == <<"/", "m", "n", "t", "/", "r", "e", "f">>  \* "/mnt/ref"

HostD == <<"/", "d">>  \* "/d"

BindD == <<"/", "m", "n", "t", "/", "d">>  \* "/mnt/d"

ReasonOom == <<"o", "o", "m">>  \* "oom"

ReasonExit == <<"e", "x", "i", "t">>  \* "exit"

StdoutA == <<"o", "u", "t">>  \* "out" (captured output of a container run)


(***************************************************************************)
(* Bounds and input sets                                                   *)
(***************************************************************************)
\* the number of calls of ex made in one behaviour
MaxCalls == 2

CallIds == 1..MaxCalls

EmptyDict == <<>>

\* the engines a descriptor may name: the three known ones and an unknown one
Engines == {"docker", "aws_batch", "singularity_slurm", "podman"}

\* mount tables of the descriptor: {host: {bind, mode}} in insertion order
MountTables ==
  { <<[host |-> HostRef, bind |-> BindRef, mode |-> ModeRo]>>,
    <<[host |-> HostD, bind |-> BindD, mode |-> ModeRw]>> }

\* path sets handed to the local and shared-filesystem engines
LocalInputs ==
  { EmptyDict,
    (Ka :> PDataX),
    (Ka :> PDX),
    (Ka :> PDAbX) @@ (Kc :> PDAcY),
    (Ka :> PDX) @@ (Kc :> PDOY) }

LocalOutputs ==
  { EmptyDict,
    (Kb :> PDataOutY),
    (Kb :> PDY),
    (Kb :> PDAZ),
    (Kb :> PDOY) @@ (Ka :> PDY) }

\* path sets handed to the cloud-batch engine
BatchInputs ==
  { EmptyDict,
    (Ka :> PDX),
    (Ka :> PDX) @@ (Kc :> PDOY),
    (Ka :> PS3In),
    (Ka :> PFileX) @@ (Kc :> PS3In),
    (Ka :> PFtp) }

BatchOutputs ==
  { EmptyDict,
    (Kc :> PDOY),
    (Kb :> PS3Out),
    (Ka :> PDY) @@ (Kb :> PS3Out),
    (Kb :> PFtp) }

\* a command template with the extra parameters given along with it
CommandCases ==
  { [command |-> TplCat, extra_params |-> EmptyDict],
    [command |-> TplEcho, extra_params |-> EmptyDict],
    [command |-> TplEcho, extra_params |-> (Ka :> ValX)],
    [command |-> TplRun, extra_params |-> (Kp :> ValV)],
    [command |-> TplRun, extra_params |-> EmptyDict] }

\* the cloud-batch engine renders leniently and fails on no template
BatchCommandCases ==
  { [command |-> TplCat, extra_params |-> EmptyDict],
    [command |-> TplEcho, extra_params |-> (Ka :> ValX)],
    [command |-> TplRun, extra_params |-> (Kp :> ValV)] }

Modes == {ModeRo, ModeRw}

InputsFor(engine) == IF engine = "aws_batch" THEN BatchInputs ELSE LocalInputs

CommandsFor(engine) == IF engine = "aws_batch" THEN BatchCommandCases ELSE CommandCases

\* ex_aws_batch never reads outputs_mode
OutputModesFor(engine) == IF engine = "aws_batch" THEN {ModeRw} ELSE Modes

OutputsFor(engine) == IF engine = "aws_batch" THEN BatchOutputs ELSE LocalOutputs

(***************************************************************************)
(* Mount tables (dicts in insertion order)                                 *)
(***************************************************************************)
Hosts(mounts) == {mounts[i].host : i \in 1..Len(mounts)}

\* mounts[host] = {'bind': bind, 'mode': mode}
SetMount(mounts, host, bind, mode) ==
  LET e == [host |-> host, bind |-> bind, mode |-> mode]
  IN IF host \in Hosts(mounts)
     THEN [i \in 1..Len(mounts) |-> IF mounts[i].host = host THEN e ELSE mounts[i]]
     ELSE Append(mounts, e)

\* lines 612-618: the mounts once the outputs are mapped; out is the pair
\* map_paths_to_container returns for them
mounts_with_outputs(info_mounts, output_paths, outputs_mode, out) ==
  IF DOMAIN output_paths # {}
  THEN SetMount(info_mounts, out[1], MntOutputs, outputs_mode)
  ELSE info_mounts

\* lines 612-617: the container paths once the outputs are mapped
paths_with_outputs(output_paths, out) ==
  IF DOMAIN output_paths # {} THEN out[2] ELSE EmptyDict

\* line 626: both are given and their common ancestors are equal
same_ancestor(output_paths, out, inp) ==
  DOMAIN output_paths # {} /\ out[1] = inp[1]

\* the mapping block without the branch for equal common ancestors: the
\* inputs always get their own mount under /mnt/inputs
merge_no_collision(info_mounts, input_paths, output_paths, inputs_mode, outputs_mode, cwd, out, inp) ==
  IF DOMAIN input_paths = {}
  THEN [container_paths |-> paths_with_outputs(output_paths, out),
        mounts |-> mounts_with_outputs(info_mounts, output_paths, outputs_mode, out)]
  ELSE [container_paths |-> Update(paths_with_outputs(output_paths, out), inp[2]),
        mounts |-> SetMount(mounts_with_outputs(info_mounts, output_paths, outputs_mode, out),
                            inp[1], MntInputs, inputs_mode)]

\* lines 620-637: the inputs join the mounts and the container paths; out
\* and inp are the pairs map_paths_to_container returns for the outputs
\* under /mnt/outputs and the inputs under /mnt/inputs
merge_inputs(info_mounts, input_paths, output_paths, inputs_mode, outputs_mode, cwd, out, inp) ==
  IF DOMAIN input_paths = {}
  THEN [container_paths |-> paths_with_outputs(output_paths, out),
        mounts |-> mounts_with_outputs(info_mounts, output_paths, outputs_mode, out)]
  ELSE IF same_ancestor(output_paths, out, inp)
  THEN [container_paths |->
          Update(paths_with_outputs(output_paths, out),
                 map_paths_to_container(input_paths, MntOutputs, cwd)[2]),
        mounts |-> mounts_with_outputs(info_mounts, output_paths, outputs_mode, out)]
  ELSE [container_paths |-> Update(paths_with_outputs(output_paths, out), inp[2]),
        mounts |-> SetMount(mounts_with_outputs(info_mounts, output_paths, outputs_mode, out),
                            inp[1], MntInputs, inputs_mode)]

\* The mapping block shared by ex_docker and ex_singularity_slurm: the
\* per-call copy of the descriptor's mounts with the derived output and
\* input mounts, and the container paths of every key.
derive_mounts(info_mounts, input_paths, output_paths, inputs_mode, outputs_mode, cwd) ==
  merge_inputs(info_mounts, input_paths, output_paths, inputs_mode, outputs_mode, cwd,
               map_paths_to_container(output_paths, MntOutputs, cwd),
               map_paths_to_container(input_paths, MntInputs, cwd))

(***************************************************************************)
(* State                                                                   *)
(***************************************************************************)
VARIABLES
  containerinfo,  \* the task's ContainerInfo: engine, mounts, cache, AWS settings
  container,      \* the task's image reference (self.container)
  frame,          \* per call of ex: its position, arguments, locals and result
  os_cwd,         \* the working directory of the process
  files,          \* the files that exist on the host file system
  s3,             \* the objects of the object store, as [Bucket, Key]
  jobDefs,        \* the ACTIVE job definitions of the batch service, oldest first
  jobs,           \* the jobs of the batch service: job id -> status
  mapIn,          \* arguments of one call of map_paths_to_container
  mapOut          \* what that call returned

vars == <<containerinfo, container, frame, os_cwd, files, s3, jobDefs, jobs, mapIn, mapOut>>

\* the variables only the specification of map_paths_to_container moves
mapVars == <<mapIn, mapOut>>

NoMapIn == [paths |-> EmptyDict, container_base_path |-> <<>>, cwd |-> <<>>]

NoMapOut == [done |-> FALSE, common_ancestor |-> <<>>, container_paths |-> EmptyDict]

NoArgs ==
  [command |-> <<>>, input_paths |-> EmptyDict, output_paths |-> EmptyDict,
   extra_params |-> EmptyDict, inputs_mode |-> <<>>, outputs_mode |-> <<>>]

\* the frame of a call that has not started; None is the empty tuple
IdleFrame ==
  [pc |-> "idle", args |-> NoArgs, backend |-> "", info_mounts |-> <<>>,
   command |-> <<>>, input_paths |-> EmptyDict, output_paths |-> EmptyDict,
   extra_params |-> EmptyDict, inputs_mode |-> <<>>, outputs_mode |-> <<>>,
   container_paths |-> EmptyDict, mounts |-> <<>>, rendered |-> <<>>,
   outcome |-> "", img_location |-> <<>>, cwd |-> <<>>,
   s3_input_paths |-> EmptyDict, s3_output_paths |-> EmptyDict,
   need_s3_uploads |-> {}, need_s3_downloads |-> {}, todo |-> {},
   job_def_name |-> <<>>, container_command_list |-> <<>>,
   job_submission_id |-> <<>>, job_status |-> "",
   defs_seen |-> 0, ret |-> <<>>, exc |-> "", exc_arg |-> <<>>, trace |-> <<>>]

Ended == {"returned", "raised", "ended"}

\* what is kept of a call that is over: the backend it ran, how it ended,
\* the mount table of its descriptor and the job definition it used
Compact(f) ==
  [IdleFrame EXCEPT !.pc = "ended", !.backend = f.backend, !.exc = f.exc,
                    !.info_mounts = f.info_mounts,
                    !.job_def_name = f.job_def_name]

Event(op, arg) == [op |-> op, arg |-> arg]

Ops(f) == {f.trace[i].op : i \in 1..Len(f.trace)}

ArgsFor(engine) ==
  { [command |-> cc.command, input_paths |-> i, output_paths |-> o,
     extra_params |-> cc.extra_params, inputs_mode |-> im, outputs_mode |-> om] :
      cc \in CommandsFor(engine), i \in InputsFor(engine), o \in OutputsFor(engine),
      im \in Modes, om \in OutputModesFor(engine) }

Init ==
  /\ containerinfo \in [engine : Engines, mounts : MountTables,
                        container_cache : {CacheA}, aws_jobRoleArn : {RoleA},
                        aws_s3_scratch_loc : {ScratchA}]
  /\ container = ImgA
  /\ frame = [c \in CallIds |-> IdleFrame]
  /\ os_cwd = CwdA
  /\ files = {}
  /\ s3 = {}
  /\ jobDefs = <<>>
  /\ jobs = <<>>
  /\ mapIn = NoMapIn
  /\ mapOut = NoMapOut

(***************************************************************************)
(* ex: the dispatch facade                                                 *)
(***************************************************************************)
\* the backend ex selects for an engine; "" when the engine is unknown
\* a facade that sends every engine but docker to the cloud-batch backend
backend_for_batch_default(engine) ==
  IF engine = "docker" THEN "ex_docker" ELSE "ex_aws_batch"

\* lines 148-176: the backend ex selects for an engine, "" for none
backend_for(engine) ==
  IF engine = "docker" THEN "ex_docker"
  ELSE IF engine = "aws_batch" THEN "ex_aws_batch"
  ELSE IF engine = "singularity_slurm" THEN "ex_singularity_slurm"
  ELSE ""

\* the frame of a call once ex has dispatched the arguments a on a task
\* whose descriptor is info
dispatch(info, a) ==
  IF backend_for(info.engine) = ""
  THEN [IdleFrame EXCEPT !.pc = "raised", !.args = a, !.exc = "Exception",
                         !.info_mounts = info.mounts]
  ELSE [IdleFrame EXCEPT !.pc = backend_for(info.engine), !.args = a,
                         !.backend = backend_for(info.engine),
                         !.info_mounts = info.mounts,
                         !.command = a.command,
                         !.input_paths = a.input_paths,
                         !.output_paths = a.output_paths,
                         !.extra_params = a.extra_params,
                         !.inputs_mode = a.inputs_mode,
                         !.outputs_mode = a.outputs_mode]

\* A task calls ex once every earlier call has ended.
Ex(c) ==
  /\ frame[c].pc = "idle"
  /\ \A d \in CallIds : d < c => frame[d].pc = "ended"
  /\ \E a \in ArgsFor(containerinfo.engine) :
       frame' = [frame EXCEPT ![c] = dispatch(containerinfo, a)]
  /\ UNCHANGED <<mapVars, containerinfo, container, os_cwd, files, s3, jobDefs, jobs>>

\* The call is over: its result or exception has reached the caller and
\* its locals are gone.
Return(c) ==
  /\ frame[c].pc \in {"returned", "raised"}
  /\ frame' = [frame EXCEPT ![c] = Compact(frame[c])]
  /\ UNCHANGED <<mapVars, containerinfo, container, os_cwd, files, s3, jobDefs, jobs>>

\* Between two calls the caller builds the next task around a ContainerInfo
\* with another mount table; the image, the role and the services are shared.
NewTask ==
  /\ \A c \in CallIds : frame[c].pc \in {"ended", "idle"}
  /\ \E c \in CallIds : frame[c].pc = "ended"
  /\ \E c \in CallIds : frame[c].pc = "idle"
  /\ \E m \in MountTables \ {containerinfo.mounts} :
       containerinfo' = [containerinfo EXCEPT !.mounts = m]
  /\ UNCHANGED <<mapVars, container, frame, os_cwd, files, s3, jobDefs, jobs>>

(***************************************************************************)
(* ex_docker                                                               *)
(***************************************************************************)
DockerOutcomes == {"ok", "ContainerError", "ImageNotFound", "APIError", "Exception"}

\* a result that reports the failure of the run in its status alone
docker_result_keeps_stdout(outcome, stdout) ==
  IF outcome = "ok" THEN <<0, stdout, <<>>>> ELSE <<1, stdout, <<>>>>

\* the value ex_docker returns for an outcome of client.containers.run
docker_result(outcome, stdout) ==
  IF outcome = "ok" THEN <<0, stdout, <<>>>> ELSE <<-1, <<>>, <<>>>>

\* the substitution map of ex_docker and ex_aws_batch
template_dict(container_paths, extra_params) == Update(container_paths, extra_params)

\* lines 608-641: map the paths, merge the mounts, render the command
ExDockerPrepare(c) ==
  LET f == frame[c]
      dm == derive_mounts(containerinfo.mounts, f.input_paths, f.output_paths,
                          f.inputs_mode, f.outputs_mode, os_cwd)
      r == substitute(f.command, template_dict(dm.container_paths, f.extra_params))
  IN /\ f.pc = "ex_docker"
     /\ frame' = [frame EXCEPT ![c] =
          [f EXCEPT !.container_paths = dm.container_paths,
                    !.mounts = dm.mounts,
                    !.rendered = r.out,
                    !.exc = r.err,
                    !.pc = IF r.err = "" THEN "docker_run" ELSE "raised"]]
     /\ UNCHANGED <<mapVars, containerinfo, container, os_cwd, files, s3, jobDefs, jobs>>

\* lines 643-669: run the container; every outcome becomes a status tuple
ExDockerRun(c) ==
  LET f == frame[c]
  IN /\ f.pc = "docker_run"
     /\ \E outcome \in DockerOutcomes :
          frame' = [frame EXCEPT ![c] =
            [f EXCEPT !.outcome = outcome,
                      !.trace = Append(f.trace, Event("containers.run", f.rendered)),
                      !.ret = docker_result(outcome, StdoutA),
                      !.pc = "returned"]]
     /\ UNCHANGED <<mapVars, containerinfo, container, os_cwd, files, s3, jobDefs, jobs>>

(***************************************************************************)
(* ex_singularity_slurm                                                    *)
(***************************************************************************)
\* lines 220-223: the cache file of the image
img_location_of(container_cache, image) ==
  Join(container_cache, make_fs_name(image) \o ImgSuffix)

\* a mapping block that works on the descriptor's own mount dict, not on a
\* copy of it
ExSingPrepareNoCopy(c) ==
  LET f == frame[c]
      dm == derive_mounts(containerinfo.mounts, f.input_paths, f.output_paths,
                          f.inputs_mode, f.outputs_mode, os_cwd)
  IN /\ f.pc = "ex_singularity_slurm"
     /\ containerinfo' = [containerinfo EXCEPT !.mounts = dm.mounts]
     /\ frame' = [frame EXCEPT ![c] =
          [f EXCEPT !.container_paths = dm.container_paths,
                    !.mounts = dm.mounts,
                    !.img_location = img_location_of(containerinfo.container_cache, container),
                    !.pc = "sing_exists"]]
     /\ UNCHANGED <<mapVars, container, os_cwd, files, s3, jobDefs, jobs>>

\* lines 190-224: map the paths, merge the mounts, name the cache file
ExSingPrepare(c) ==
  LET f == frame[c]
      dm == derive_mounts(containerinfo.mounts, f.input_paths, f.output_paths,
                          f.inputs_mode, f.outputs_mode, os_cwd)
  IN /\ f.pc = "ex_singularity_slurm"
     /\ frame' = [frame EXCEPT ![c] =
          [f EXCEPT !.container_paths = dm.container_paths,
                    !.mounts = dm.mounts,
                    !.img_location = img_location_of(containerinfo.container_cache, container),
                    !.pc = "sing_exists"]]
     /\ UNCHANGED <<mapVars, containerinfo, container, os_cwd, files, s3, jobDefs, jobs>>

\* a cache that never holds the image
image_never_cached(img_location, cwd, present) == FALSE

\* line 225: os.path.exists(img_location), present being the files on disk
image_cached(img_location, cwd, present) == AbsPath(img_location, cwd) \in present

\* lines 225-231: look for the image; on a miss make the cache directory
ExSingExists(c) ==
  LET f == frame[c]
  IN /\ f.pc = "sing_exists"
     /\ frame' = [frame EXCEPT ![c].pc =
          IF image_cached(f.img_location, os_cwd, files) THEN "sing_render"
          ELSE "sing_getcwd"]
     /\ UNCHANGED <<mapVars, containerinfo, container, os_cwd, files, s3, jobDefs, jobs>>

\* line 234: cwd = os.getcwd()
ExSingGetcwd(c) ==
  LET f == frame[c]
  IN /\ f.pc = "sing_getcwd"
     /\ frame' = [frame EXCEPT ![c] = [f EXCEPT !.cwd = os_cwd, !.pc = "sing_chdir"]]
     /\ UNCHANGED <<mapVars, containerinfo, container, os_cwd, files, s3, jobDefs, jobs>>

\* line 236: os.chdir(os.path.dirname(img_location))
ExSingChdir(c) ==
  LET f == frame[c]
  IN /\ f.pc = "sing_chdir"
     /\ os_cwd' = AbsPath(Dirname(f.img_location), os_cwd)
     /\ frame' = [frame EXCEPT ![c] =
          [f EXCEPT !.trace = Append(f.trace, Event("chdir", Dirname(f.img_location))),
                    !.pc = "sing_pull"]]
     /\ UNCHANGED <<mapVars, containerinfo, container, files, s3, jobDefs, jobs>>

PullOutcomes == {"ok", "failed", "OSError"}

\* lines 238-249: singularity pull writes the image into the working
\* directory; a failed pull leaves no file; subprocess.run raises when the
\* program cannot be started
ExSingPull(c) ==
  LET f == frame[c]
  IN /\ f.pc = "sing_pull"
     /\ \E outcome \in PullOutcomes :
          /\ files' = IF outcome = "ok"
                      THEN files \cup {Join(os_cwd, Basename(f.img_location))}
                      ELSE files
          /\ frame' = [frame EXCEPT ![c] =
               [f EXCEPT !.trace = Append(f.trace, Event("singularity pull", container)),
                         !.outcome = outcome,
                         !.exc = IF outcome = "OSError" THEN "OSError" ELSE "",
                         !.pc = IF outcome = "OSError" THEN "raised" ELSE "sing_restore"]]
     /\ UNCHANGED <<mapVars, containerinfo, container, os_cwd, s3, jobDefs, jobs>>

\* a restore that leaves the process where the pull ran
ExSingRestoreNowhere(c) ==
  LET f == frame[c]
  IN /\ f.pc = "sing_restore"
     /\ frame' = [frame EXCEPT ![c] =
          [f EXCEPT !.trace = Append(f.trace, Event("chdir", f.cwd)),
                    !.pc = "sing_render"]]
     /\ UNCHANGED <<mapVars, containerinfo, container, os_cwd, files, s3, jobDefs, jobs>>

\* line 251: os.chdir(cwd)
ExSingRestore(c) ==
  LET f == frame[c]
  IN /\ f.pc = "sing_restore"
     /\ os_cwd' = AbsPath(f.cwd, os_cwd)
     /\ frame' = [frame EXCEPT ![c] =
          [f EXCEPT !.trace = Append(f.trace, Event("chdir", f.cwd)),
                    !.pc = "sing_render"]]
     /\ UNCHANGED <<mapVars, containerinfo, container, files, s3, jobDefs, jobs>>

\* line 253: the substitution map of ex_singularity_slurm
sing_template_dict(container_paths, extra_params) == container_paths

\* line 253: render the command (strict)
ExSingRender(c) ==
  LET f == frame[c]
      r == substitute(f.command, sing_template_dict(f.container_paths, f.extra_params))
  IN /\ f.pc = "sing_render"
     /\ frame' = [frame EXCEPT ![c] =
          [f EXCEPT !.rendered = r.out,
                    !.exc = r.err,
                    !.pc = IF r.err = "" THEN "sing_exec" ELSE "raised"]]
     /\ UNCHANGED <<mapVars, containerinfo, container, os_cwd, files, s3, jobDefs, jobs>>

ExecOutcomes == {"ok", "OSError"}

\* lines 259-273: singularity exec with one -B per mount; returns None
ExSingExec(c) ==
  LET f == frame[c]
  IN /\ f.pc = "sing_exec"
     /\ \E outcome \in ExecOutcomes :
          frame' = [frame EXCEPT ![c] =
            [f EXCEPT !.trace = Append(f.trace, Event("singularity exec", f.img_location)),
                      !.outcome = outcome,
                      !.ret = <<>>,
                      !.exc = IF outcome = "OSError" THEN "OSError" ELSE "",
                      !.pc = IF outcome = "OSError" THEN "raised" ELSE "returned"]]
     /\ UNCHANGED <<mapVars, containerinfo, container, os_cwd, files, s3, jobDefs, jobs>>

(***************************************************************************)
(* ex_aws_batch                                                            *)
(***************************************************************************)
ColonColon == <<":", ":">>

DirIn == <<"/", "i", "n", "/">>  \* "/in/" (line 342)

DirOut == <<"/", "o", "u", "t", "/">>  \* "/out/" (line 412)

\* str(mounts): the repr of the descriptor's mount dict
RECURSIVE repr_entries(_)
repr_entries(mounts) ==
  IF mounts = <<>> THEN <<>>
  ELSE LET e == mounts[1]
           one == <<"'">> \o e.host \o <<"'", ":", " ", "{", "'", "b", "i", "n", "d", "'", ":", " ", "'">> \o e.bind
                  \o <<"'", ",", " ", "'", "m", "o", "d", "e", "'", ":", " ", "'">> \o e.mode \o <<"'", "}">>
       IN IF Len(mounts) = 1 THEN one
          ELSE one \o <<",", " ">> \o repr_entries(Tail(mounts))

repr_mounts(mounts) == <<"{">> \o repr_entries(mounts) \o <<"}">>

\* uuid.uuid5(NAMESPACE_URL, name): a hash, modelled as injective on names
uuid5(name) == name

\* a definition name that leaves the mount table out of the fingerprint
job_def_name_no_mounts(image, role, mounts) ==
  JobDefPrefix \o uuid5(image \o role)

\* lines 449-454: the name of the job definition
job_def_name_of(image, role, mounts) ==
  JobDefPrefix \o uuid5(image \o role \o repr_mounts(mounts))

\* run_uuid = str(uuid.uuid4()): a token no other call has
run_uuid(c) == <<"r", CHOOSE d \in Digits : d = ToString(c)>>

\* Bucket and Key arguments of the S3 calls for an s3:// URL
s3_object(url) ==
  [Bucket |-> urlsplit(url).netloc, Key |-> Strip(urlsplit(url).path, Sep)]

\* a classification that takes every path that is not s3 for a local one
classify_any_scheme(paths) ==
  LET sp(k) == urlsplit(paths[k])
      s3keys == {k \in DOMAIN paths : sp(k).scheme = SchemeS3}
      fskeys == DOMAIN paths \ s3keys
  IN [err |-> "",
      from_s3 |-> [k \in s3keys |-> Join(sp(k).netloc, sp(k).path)],
      from_local_fs |-> [k \in fskeys |-> sp(k).path],
      s3_paths |-> [k \in s3keys |-> paths[k]]]

\* lines 316-333 and 388-405: split a path dict by scheme
classify(paths) ==
  LET sp(k) == urlsplit(paths[k])
      s3keys == {k \in DOMAIN paths : sp(k).scheme = SchemeS3}
      fskeys == {k \in DOMAIN paths : sp(k).scheme \in {SchemeFile, <<>>}}
  IN [err |-> IF s3keys \cup fskeys = DOMAIN paths THEN "" ELSE "ValueError",
      from_s3 |-> [k \in s3keys |-> Join(sp(k).netloc, sp(k).path)],
      from_local_fs |-> [k \in fskeys |-> sp(k).path],
      s3_paths |-> [k \in s3keys |-> paths[k]]]

Values(d) == {d[k] : k \in DOMAIN d}

\* lines 335-339: the local common prefix of the inputs
in_common_prefix(input_paths) ==
  Dirname(CommonPrefix(Values(classify(input_paths).from_local_fs)))

\* lines 342-346: the scratch object a local input is uploaded to
s3_in_temp_path(scratch, run, path, prefix, cwd) ==
  scratch \o run \o DirIn \o RelPath(path, prefix, cwd)

\* lines 361-380 and 425-444: container paths of one class of paths
class_container_paths(base, by_key, cwd) ==
  [k \in DOMAIN by_key |->
     Join(base, RelPath(by_key[k], Dirname(CommonPrefix(Values(by_key))), cwd))]

\* lines 297-339: classify the inputs
ExBatchInputs(c) ==
  LET f == frame[c]
      cls == classify(f.input_paths)
  IN /\ f.pc = "ex_aws_batch"
     /\ frame' = [frame EXCEPT ![c] =
          IF cls.err # ""
          THEN [f EXCEPT !.exc = cls.err, !.pc = "raised"]
          ELSE [f EXCEPT !.s3_input_paths = cls.s3_paths,
                         !.need_s3_uploads = DOMAIN cls.from_local_fs,
                         !.todo = DOMAIN cls.from_local_fs,
                         !.pc = "batch_upload"]]
     /\ UNCHANGED <<mapVars, containerinfo, container, os_cwd, files, s3, jobDefs, jobs>>

\* lines 341-359: upload one local input to its scratch object
ExBatchUpload(c) ==
  LET f == frame[c]
  IN /\ f.pc = "batch_upload"
     /\ \E k \in f.todo :
          LET dst == s3_in_temp_path(containerinfo.aws_s3_scratch_loc, run_uuid(c),
                                     classify(f.input_paths).from_local_fs[k],
                                     in_common_prefix(f.input_paths), os_cwd)
          IN /\ s3' = s3 \cup {s3_object(dst)}
             /\ frame' = [frame EXCEPT ![c] =
                  [f EXCEPT !.s3_input_paths = Update(f.s3_input_paths, (k :> dst)),
                            !.todo = f.todo \ {k},
                            !.trace = Append(f.trace, Event("upload_file", dst))]]
     /\ UNCHANGED <<mapVars, containerinfo, container, os_cwd, files, jobDefs, jobs>>

\* lines 352-359: the upload raises (no such file, no access, no network)
ExBatchUploadFails(c) ==
  LET f == frame[c]
  IN /\ f.pc = "batch_upload"
     /\ f.todo # {}
     /\ frame' = [frame EXCEPT ![c] = [f EXCEPT !.exc = "TransferError", !.pc = "raised"]]
     /\ UNCHANGED <<mapVars, containerinfo, container, os_cwd, files, s3, jobDefs, jobs>>

\* lines 406-417: the scratch object a local output is fetched from
s3_out_temp_path(scratch, run, path, prefix, cwd) ==
  scratch \o run \o DirOut \o RelPath(path, prefix, cwd)

\* lines 360-454: container paths of the inputs, classification of the
\* outputs, their scratch objects and container paths, the definition name
ExBatchOutputs(c) ==
  LET f == frame[c]
      inc == classify(f.input_paths)
      cls == classify(f.output_paths)
      local == cls.from_local_fs
      output_common_prefix ==
        CommonPath({Dirname(AbsPath(local[k], os_cwd)) : k \in DOMAIN local})
      outs == [k \in DOMAIN local |->
                 s3_out_temp_path(containerinfo.aws_s3_scratch_loc, run_uuid(c),
                                  local[k], output_common_prefix, os_cwd)]
      cp == Update(Update(Update(class_container_paths(MntInputsFs, inc.from_local_fs, os_cwd),
                                 class_container_paths(MntInputsS3, inc.from_s3, os_cwd)),
                          class_container_paths(MntOutputsFs, local, os_cwd)),
                   class_container_paths(MntOutputsS3, cls.from_s3, os_cwd))
  IN /\ f.pc = "batch_upload"
     /\ f.todo = {}
     /\ frame' = [frame EXCEPT ![c] =
          IF cls.err # "" \/ DOMAIN local = {}
          THEN [f EXCEPT !.exc = "ValueError", !.pc = "raised"]
          ELSE [f EXCEPT !.s3_output_paths = Update(cls.s3_paths, outs),
                         !.need_s3_downloads = DOMAIN local,
                         !.container_paths = cp,
                         !.job_def_name = job_def_name_of(container,
                              containerinfo.aws_jobRoleArn, containerinfo.mounts),
                         !.pc = "batch_describe"]]
     /\ UNCHANGED <<mapVars, containerinfo, container, os_cwd, files, s3, jobDefs, jobs>>

\* a lookup that never finds a definition
DefNamesNone == {}

\* a lookup that does not see the newest definition yet
DefNamesButNewest == {jobDefs[i].jobDefinitionName : i \in 1..(Len(jobDefs) - 1)}

\* the names describe_job_definitions finds ACTIVE
DefNames == {jobDefs[i].jobDefinitionName : i \in 1..Len(jobDefs)}

\* lines 456-462 and 507-513: look the definition up by name; defs_seen
\* remembers how many definitions the registry held at that moment
ExBatchDescribe(c) ==
  LET f == frame[c]
  IN /\ f.pc = "batch_describe"
     /\ frame' = [frame EXCEPT ![c] =
          [f EXCEPT !.trace = Append(f.trace, Event("describe_job_definitions", f.job_def_name)),
                    !.defs_seen = Len(jobDefs),
                    !.pc = IF f.job_def_name \in DefNames THEN "batch_submit"
                           ELSE "batch_register"]]
     /\ UNCHANGED <<mapVars, containerinfo, container, os_cwd, files, s3, jobDefs, jobs>>

\* lines 463-506: register the definition from the descriptor's mounts
ExBatchRegister(c) ==
  LET f == frame[c]
  IN /\ f.pc = "batch_register"
     /\ jobDefs' = Append(jobDefs,
          [jobDefinitionName |-> f.job_def_name, image |-> container,
           jobRoleArn |-> containerinfo.aws_jobRoleArn,
           mounts |-> containerinfo.mounts, by |-> c])
     /\ frame' = [frame EXCEPT ![c] =
          [f EXCEPT !.trace = Append(f.trace, Event("register_job_definition", f.job_def_name)),
                    !.pc = "batch_submit"]]
     /\ UNCHANGED <<mapVars, containerinfo, container, os_cwd, files, s3, jobs>>

\* lines 515-541: the wrapper command: the rendered command (lenient), one
\* -DF per key of s3_input_paths and one -UF per key of s3_output_paths
container_command_list_of(f) ==
  [command |-> safe_substitute(f.command,
                               template_dict(f.container_paths, f.extra_params)).out,
   DF |-> [k \in DOMAIN f.s3_input_paths |->
             f.s3_input_paths[k] \o ColonColon \o f.container_paths[k]
               \o ColonColon \o f.inputs_mode],
   UF |-> [k \in DOMAIN f.s3_output_paths |->
             f.container_paths[k] \o ColonColon \o f.s3_output_paths[k]]]

\* an entry of describe_jobs(...)['jobs']
Job(status, statusReason) == [status |-> status, statusReason |-> statusReason]

FailReasons == {ReasonOom, ReasonExit}

\* what the service can make of a job
JobOutcomes ==
  {Job("RUNNING", <<>>), Job("SUCCEEDED", <<>>)}
    \cup {Job("FAILED", r) : r \in FailReasons}

\* lines 515-558: build the wrapper command and submit the job
ExBatchSubmit(c) ==
  LET f == frame[c]
      ccl == container_command_list_of(f)
  IN /\ f.pc = "batch_submit"
     /\ jobs' = Update(jobs, (run_uuid(c) :> Job("SUBMITTED", <<>>)))
     /\ frame' = [frame EXCEPT ![c] =
          [f EXCEPT !.rendered = ccl.command,
                    !.container_command_list = ccl,
                    !.job_submission_id = run_uuid(c),
                    !.trace = Append(f.trace, Event("submit_job", f.job_def_name)),
                    !.pc = "batch_poll"]]
     /\ UNCHANGED <<mapVars, containerinfo, container, os_cwd, files, s3, jobDefs>>

\* The batch service moves a job along: SUBMITTED, RUNNING, then SUCCEEDED
\* or FAILED, the latter with a statusReason.
JobAdvance ==
  /\ \E id \in DOMAIN jobs : \E j \in JobOutcomes :
       /\ \/ jobs[id].status = "SUBMITTED" /\ j.status \in {"RUNNING", "FAILED"}
          \/ jobs[id].status = "RUNNING" /\ j.status \in {"SUCCEEDED", "FAILED"}
       /\ jobs' = [jobs EXCEPT ![id] = j]
  /\ UNCHANGED <<mapVars, containerinfo, container, frame, os_cwd, files, s3, jobDefs>>

\* stages that never bring a read-write input back
after_stage_no_input_refresh(f, stage) ==
  IF stage = "batch_poll" /\ f.need_s3_downloads # {}
  THEN [pc |-> "batch_download_out", todo |-> f.need_s3_downloads]
  ELSE IF stage # "batch_delete" /\ f.need_s3_uploads # {}
  THEN [pc |-> "batch_delete", todo |-> f.need_s3_uploads]
  ELSE [pc |-> "returned", todo |-> {}]

\* stages that delete the uploaded inputs before anything is downloaded
after_stage_delete_first(f, stage) ==
  IF stage = "batch_poll" /\ f.need_s3_uploads # {}
  THEN [pc |-> "batch_delete", todo |-> f.need_s3_uploads]
  ELSE IF stage \in {"batch_poll", "batch_delete"} /\ f.need_s3_downloads # {}
  THEN [pc |-> "batch_download_out", todo |-> f.need_s3_downloads]
  ELSE [pc |-> "returned", todo |-> {}]

\* the stage that follows `stage` once the job has succeeded: download the
\* outputs, download the inputs when they are read-write, delete the
\* uploaded inputs, return; a stage with nothing to do is skipped
after_stage(f, stage) ==
  IF stage = "batch_poll" /\ f.need_s3_downloads # {}
  THEN [pc |-> "batch_download_out", todo |-> f.need_s3_downloads]
  ELSE IF stage \in {"batch_poll", "batch_download_out"}
          /\ f.inputs_mode = ModeRw /\ f.need_s3_uploads # {}
  THEN [pc |-> "batch_download_in", todo |-> f.need_s3_uploads]
  ELSE IF stage # "batch_delete" /\ f.need_s3_uploads # {}
  THEN [pc |-> "batch_delete", todo |-> f.need_s3_uploads]
  ELSE [pc |-> "returned", todo |-> {}]

\* a polling loop that takes FAILED for success
poll_step_ignores_failure(f, job) ==
  IF job.status \in {"SUCCEEDED", "FAILED"}
  THEN [f EXCEPT !.job_status = job.status,
                 !.pc = after_stage(f, "batch_poll").pc,
                 !.todo = after_stage(f, "batch_poll").todo]
  ELSE [f EXCEPT !.job_status = job.status]

\* a polling loop that stops as soon as the job runs
poll_step_stops_at_running(f, job) ==
  IF job.status \in {"SUCCEEDED", "RUNNING"}
  THEN [f EXCEPT !.job_status = job.status,
                 !.pc = after_stage(f, "batch_poll").pc,
                 !.todo = after_stage(f, "batch_poll").todo]
  ELSE IF job.status = "FAILED"
  THEN [f EXCEPT !.job_status = job.status, !.exc = "Exception",
                 !.exc_arg = job.statusReason, !.pc = "raised"]
  ELSE [f EXCEPT !.job_status = job.status]

\* lines 559-569: the frame after one describe_jobs that answered job
poll_step(f, job) ==
  IF job.status = "SUCCEEDED"
  THEN [f EXCEPT !.job_status = job.status,
                 !.pc = after_stage(f, "batch_poll").pc,
                 !.todo = after_stage(f, "batch_poll").todo]
  ELSE IF job.status = "FAILED"
  THEN [f EXCEPT !.job_status = job.status, !.exc = "Exception",
                 !.exc_arg = job.statusReason, !.pc = "raised"]
  ELSE [f EXCEPT !.job_status = job.status]

\* lines 559-569: one round of the polling loop
ExBatchPoll(c) ==
  /\ frame[c].pc = "batch_poll"
  /\ frame' = [frame EXCEPT ![c] = poll_step(frame[c], jobs[frame[c].job_submission_id])]
  /\ UNCHANGED <<mapVars, containerinfo, container, os_cwd, files, s3, jobDefs, jobs>>

\* lines 572-585: download one output, or one read-write input, to its
\* local path
ExBatchDownload(c) ==
  LET f == frame[c]
      src(k) == s3_object(IF f.pc = "batch_download_out" THEN f.s3_output_paths[k]
                          ELSE f.s3_input_paths[k])
      dst(k) == IF f.pc = "batch_download_out" THEN urlsplit(f.output_paths[k]).path
                ELSE urlsplit(f.input_paths[k]).path
  IN /\ f.pc \in {"batch_download_out", "batch_download_in"}
     /\ \E k \in f.todo :
          LET nxt == IF f.todo = {k} THEN after_stage(f, f.pc)
                     ELSE [pc |-> f.pc, todo |-> f.todo \ {k}]
          IN frame' = [frame EXCEPT ![c] =
               [f EXCEPT !.trace = Append(f.trace,
                            Event("download_file",
                                  [Filename |-> dst(k), Bucket |-> src(k).Bucket,
                                   Key |-> src(k).Key])),
                         !.pc = nxt.pc, !.todo = nxt.todo]]
     /\ UNCHANGED <<mapVars, containerinfo, container, os_cwd, files, s3, jobDefs, jobs>>

\* lines 573-585: the download raises
ExBatchDownloadFails(c) ==
  LET f == frame[c]
  IN /\ f.pc \in {"batch_download_out", "batch_download_in"}
     /\ frame' = [frame EXCEPT ![c] = [f EXCEPT !.exc = "TransferError", !.pc = "raised"]]
     /\ UNCHANGED <<mapVars, containerinfo, container, os_cwd, files, s3, jobDefs, jobs>>

\* lines 587-592: delete one uploaded input object
ExBatchDelete(c) ==
  LET f == frame[c]
  IN /\ f.pc = "batch_delete"
     /\ \E k \in f.todo :
          LET nxt == IF f.todo = {k} THEN after_stage(f, f.pc)
                     ELSE [pc |-> f.pc, todo |-> f.todo \ {k}]
          IN /\ s3' = s3 \ {s3_object(f.s3_input_paths[k])}
             /\ frame' = [frame EXCEPT ![c] =
                  [f EXCEPT !.trace = Append(f.trace, Event("delete_object", f.s3_input_paths[k])),
                            !.pc = nxt.pc, !.todo = nxt.todo]]
     /\ UNCHANGED <<mapVars, containerinfo, container, os_cwd, files, jobDefs, jobs>>

Next ==
  \/ NewTask
  \/ JobAdvance
  \/ \E c \in CallIds : Ex(c)
  \/ \E c \in CallIds : Return(c)
  \/ \E c \in CallIds : ExDockerPrepare(c)
  \/ \E c \in CallIds : ExDockerRun(c)
  \/ \E c \in CallIds : ExSingPrepare(c)
  \/ \E c \in CallIds : ExSingExists(c)
  \/ \E c \in CallIds : ExSingGetcwd(c)
  \/ \E c \in CallIds : ExSingChdir(c)
  \/ \E c \in CallIds : ExSingPull(c)
  \/ \E c \in CallIds : ExSingRestore(c)
  \/ \E c \in CallIds : ExSingRender(c)
  \/ \E c \in CallIds : ExSingExec(c)
  \/ \E c \in CallIds : ExBatchInputs(c)
  \/ \E c \in CallIds : ExBatchUpload(c)
  \/ \E c \in CallIds : ExBatchUploadFails(c)
  \/ \E c \in CallIds : ExBatchOutputs(c)
  \/ \E c \in CallIds : ExBatchDescribe(c)
  \/ \E c \in CallIds : ExBatchRegister(c)
  \/ \E c \in CallIds : ExBatchSubmit(c)
  \/ \E c \in CallIds : ExBatchPoll(c)
  \/ \E c \in CallIds : ExBatchDownload(c)
  \/ \E c \in CallIds : ExBatchDownloadFails(c)
  \/ \E c \in CallIds : ExBatchDelete(c)

Spec == Init /\ [][Next]_vars

(***************************************************************************)
(* map_paths_to_container on its own: the arguments are drawn in the       *)
(* initial state and the call stores what it returns.                      *)
(***************************************************************************)
CwdDeep == <<"/", "w", "/", "v">>  \* "/w/v"

MapPaths == {PDataX, PDataOutY, PDX, PDOY, PDAbX, PDAcY, PRel, ValX}

\* every path dict with the key a, or the keys a and b
MapPathSets == [{Ka} -> MapPaths] \cup [{Ka, Kb} -> MapPaths]

MapBases == {MntDefault, MntInputs, MntOutputs, MntInputsFs}

InitMap ==
  /\ containerinfo = [engine |-> "docker", mounts |-> <<>>, container_cache |-> CacheA,
                      aws_jobRoleArn |-> RoleA, aws_s3_scratch_loc |-> ScratchA]
  /\ container = ImgA
  /\ frame = [c \in CallIds |-> IdleFrame]
  /\ os_cwd = CwdA
  /\ files = {}
  /\ s3 = {}
  /\ jobDefs = <<>>
  /\ jobs = <<>>
  /\ mapIn \in [paths : MapPathSets, container_base_path : MapBases, cwd : {CwdA, CwdDeep}]
  /\ mapOut = NoMapOut

MapCall ==
  LET r == map_paths_to_container(mapIn.paths, mapIn.container_base_path, mapIn.cwd)
  IN /\ ~mapOut.done
     /\ mapOut' = [done |-> TRUE, common_ancestor |-> r[1], container_paths |-> r[2]]
     /\ UNCHANGED <<containerinfo, container, frame, os_cwd, files, s3, jobDefs, jobs, mapIn>>

NextMap == MapCall

SpecMap == InitMap /\ [][NextMap]_vars

(***************************************************************************)
(* The cloud-batch backend on its own, with fair scheduling of the calls:  *)
(* ex_aws_batch runs in one thread from the submission to its return, so a *)
(* call that is polling, downloading or deleting eventually takes its next *)
(* step.  Nothing is assumed of the batch service: a job may stay          *)
(* SUBMITTED or RUNNING for ever.                                          *)
(***************************************************************************)
InitBatch == Init /\ containerinfo.engine = "aws_batch"

\* the arguments of the calls: local and remote inputs, local and remote
\* outputs, both input modes
LiveArgs ==
  { a \in ArgsFor("aws_batch") :
      /\ a.command = TplCat
      /\ a.input_paths \in {(Ka :> PDX), (Ka :> PFileX) @@ (Kc :> PS3In)}
      /\ a.output_paths \in {(Kc :> PDOY), (Ka :> PDY) @@ (Kb :> PS3Out)} }

ExLive(c) == Ex(c) /\ frame'[c].args \in LiveArgs

\* one step of ex_aws_batch in call c
BatchStep(c) ==
  \/ ExBatchInputs(c)
  \/ ExBatchUpload(c)
  \/ ExBatchUploadFails(c)
  \/ ExBatchOutputs(c)
  \/ ExBatchDescribe(c)
  \/ ExBatchRegister(c)
  \/ ExBatchSubmit(c)
  \/ ExBatchPoll(c)
  \/ ExBatchDownload(c)
  \/ ExBatchDownloadFails(c)
  \/ ExBatchDelete(c)

\* lines 559-592: one step of call c once its job is submitted
WaitStep(c) ==
  \/ ExBatchPoll(c)
  \/ ExBatchDownload(c)
  \/ ExBatchDownloadFails(c)
  \/ ExBatchDelete(c)

NextLive ==
  \/ JobAdvance
  \/ \E c \in CallIds : ExLive(c)
  \/ \E c \in CallIds : Return(c)
  \/ \E c \in CallIds : BatchStep(c)

SpecLive ==
  /\ InitBatch
  /\ [][NextLive]_vars
  /\ \A c \in CallIds : WF_vars(WaitStep(c))

(***************************************************************************)
(* Concurrent cloud-batch calls: workers run ex on tasks with the same     *)
(* image, role and mount table at the same time, against one batch         *)
(* service; no call waits for another.  The calls are followed until they  *)
(* return or raise.                                                        *)
(***************************************************************************)
ExConc(c) ==
  /\ frame[c].pc = "idle"
  /\ \E a \in LiveArgs :
       frame' = [frame EXCEPT ![c] = dispatch(containerinfo, a)]
  /\ UNCHANGED <<mapVars, containerinfo, container, os_cwd, files, s3, jobDefs, jobs>>

NextConc ==
  \/ JobAdvance
  \/ \E c \in CallIds : ExConc(c)
  \/ \E c \in CallIds : BatchStep(c)

SpecConc == InitBatch /\ [][NextConc]_vars

(***************************************************************************)
(* Concurrent shared-filesystem calls: threads of one process run ex on    *)
(* tasks with the same image and cache at the same time; the working       *)
(* directory and the files are those of the process.  The calls are        *)
(* followed until they return or raise.                                    *)
(***************************************************************************)
InitShared == Init /\ containerinfo.engine = "singularity_slurm"

\* the arguments of the calls: one input, with and without an output
SharedArgs ==
  { a \in ArgsFor("singularity_slurm") :
      /\ a.command = TplCat
      /\ a.input_paths = (Ka :> PDX)
      /\ a.output_paths \in {EmptyDict, (Kb :> PDY)}
      /\ a.inputs_mode = ModeRo /\ a.outputs_mode = ModeRw }

ExShared(c) ==
  /\ frame[c].pc = "idle"
  /\ \E a \in SharedArgs :
       frame' = [frame EXCEPT ![c] = dispatch(containerinfo, a)]
  /\ UNCHANGED <<mapVars, containerinfo, container, os_cwd, files, s3, jobDefs, jobs>>

NextShared ==
  \/ \E c \in CallIds : ExShared(c)
  \/ \E c \in CallIds : ExSingPrepare(c)
  \/ \E c \in CallIds : ExSingExists(c)
  \/ \E c \in CallIds : ExSingGetcwd(c)
  \/ \E c \in CallIds : ExSingChdir(c)
  \/ \E c \in CallIds : ExSingPull(c)
  \/ \E c \in CallIds : ExSingRestore(c)
  \/ \E c \in CallIds : ExSingRender(c)
  \/ \E c \in CallIds : ExSingExec(c)

SpecShared == InitShared /\ [][NextShared]_vars

(***************************************************************************)
(* Properties                                                              *)
(***************************************************************************)
IsBatch(c) == frame[c].backend = "ex_aws_batch"

IsLocal(c) == frame[c].backend \in {"ex_docker", "ex_singularity_slurm"}

\* the objects of the store under {scratch}{runId}/in/ of call c
StagedInputs(c) ==
  LET dir == s3_object(containerinfo.aws_s3_scratch_loc \o run_uuid(c) \o DirIn)
  IN {o \in s3 : o.Bucket = dir.Bucket /\ StartsWith(o.Key, dir.Key \o <<Sep>>)}

\* C1: once a cloud-batch call has ended, by returning or by raising, the
\* object store holds no object under {scratchLocation}{runId}/in/.
C1_NoStagedInputAfterCall ==
  \A c \in CallIds :
    (IsBatch(c) /\ frame[c].pc \in Ended) => StagedInputs(c) = {}

\* the call has looked its job definition up and, if it had to, registered it
PastJobDef(c) ==
  /\ IsBatch(c)
  /\ frame[c].job_def_name # <<>>
  /\ frame[c].pc \notin {"batch_describe", "batch_register"}

DefsNamed(n) == {i \in 1..Len(jobDefs) : jobDefs[i].jobDefinitionName = n}

RegisteredBy(c) == {i \in 1..Len(jobDefs) : jobDefs[i].by = c}

\* C2: of two cloud-batch calls made one after the other with the same
\* image, role and mount table, starting from an empty registry, only the
\* earlier one registers: the registry holds exactly one definition under
\* their common name, registered no later than the first of the two, and
\* the second registers nothing.
C2_OneRegistrationForSameFingerprint ==
  \A c1, c2 \in CallIds :
    (c1 < c2 /\ PastJobDef(c1) /\ PastJobDef(c2)
       /\ frame[c1].info_mounts = frame[c2].info_mounts)
    => /\ frame[c1].job_def_name = frame[c2].job_def_name
       /\ Cardinality(DefsNamed(frame[c2].job_def_name)) = 1
       /\ \A i \in DefsNamed(frame[c2].job_def_name) : jobDefs[i].by <= c1
       /\ RegisteredBy(c2) = {}

\* two calls with the same mount table have both passed the job-definition
\* step and one definition is registered
C2_Witness ==
  \E c1, c2 \in CallIds :
    /\ c1 < c2 /\ PastJobDef(c1) /\ PastJobDef(c2)
    /\ frame[c1].info_mounts = frame[c2].info_mounts
    /\ "submit_job" \in Ops(frame[c2])
    /\ Len(jobDefs) = 1 /\ jobDefs[1].by = c1

\* C3 as stated: of two successive cloud-batch calls with the same image and
\* role but different mount tables, the second registers nothing and
\* submits against the definition the first registered.
C3_DifferentMountsReuseFirst ==
  \A c1, c2 \in CallIds :
    (c1 < c2 /\ PastJobDef(c1) /\ PastJobDef(c2)
       /\ frame[c1].info_mounts # frame[c2].info_mounts)
    => /\ RegisteredBy(c2) = {}
       /\ frame[c2].job_def_name = frame[c1].job_def_name

\* C3 amended: of two successive cloud-batch calls with the same image and
\* role but different mount tables, the names differ and the second call
\* uses the one definition registered under its own name, which carries its
\* own mount table: it registers it itself unless an earlier call with that
\* same mount table did.
C3_DifferentMountsOwnDefinition ==
  \A c1, c2 \in CallIds :
    (c1 < c2 /\ PastJobDef(c1) /\ PastJobDef(c2)
       /\ frame[c1].info_mounts # frame[c2].info_mounts)
    => /\ frame[c2].job_def_name # frame[c1].job_def_name
       /\ Cardinality(DefsNamed(frame[c2].job_def_name)) = 1
       /\ \A i \in DefsNamed(frame[c2].job_def_name) :
            /\ jobDefs[i].mounts = frame[c2].info_mounts
            /\ jobDefs[i].by # c1
            /\ jobDefs[i].by <= c2
            /\ frame[jobDefs[i].by].info_mounts = frame[c2].info_mounts

\* the second of two calls with different mount tables has registered a
\* second definition
C3_Witness ==
  \E c1, c2 \in CallIds :
    /\ c1 < c2 /\ PastJobDef(c1) /\ PastJobDef(c2)
    /\ frame[c1].info_mounts # frame[c2].info_mounts
    /\ RegisteredBy(c1) # {} /\ RegisteredBy(c2) # {}

\* the call has run the mapping block of its backend
Mapped(c) ==
  /\ IsLocal(c)
  /\ frame[c].pc \notin {"ex_docker", "ex_singularity_slurm", "ended"}

InputAncestor(c) == map_paths_to_container(frame[c].args.input_paths, MntInputs, os_cwd)[1]

OutputAncestor(c) == map_paths_to_container(frame[c].args.output_paths, MntOutputs, os_cwd)[1]

Entries(mounts) == {mounts[i] : i \in 1..Len(mounts)}

EntriesFor(mounts, host) == {i \in 1..Len(mounts) : mounts[i].host = host}

BothGiven(c) ==
  DOMAIN frame[c].args.input_paths # {} /\ DOMAIN frame[c].args.output_paths # {}

\* C4: in ex_docker and ex_singularity_slurm, with inputs and outputs both
\* given: when their common ancestors are equal every input container path
\* lies under /mnt/outputs, no mount binds /mnt/inputs and the ancestor has
\* exactly one mount, bound to /mnt/outputs with outputs_mode; when they
\* differ every input container path lies under /mnt/inputs and the input
\* ancestor has its own mount, bound to /mnt/inputs with inputs_mode.
C4_CollisionPrecedence ==
  \A c \in CallIds :
    (Mapped(c) /\ BothGiven(c)) =>
      LET f == frame[c]
          a == f.args
          ica == InputAncestor(c)
          oca == OutputAncestor(c)
          under(base) ==
            \A k \in DOMAIN a.input_paths :
              /\ StartsWith(f.container_paths[k], base \o <<Sep>>)
              /\ f.container_paths[k] = Join(base, RelPath(a.input_paths[k], ica, os_cwd))
      IN IF ica = oca
         THEN /\ under(MntOutputs)
              /\ \A e \in Entries(f.mounts) : e.bind # MntInputs
              /\ Cardinality(EntriesFor(f.mounts, oca)) = 1
              /\ [host |-> oca, bind |-> MntOutputs, mode |-> a.outputs_mode]
                   \in Entries(f.mounts)
         ELSE /\ under(MntInputs)
              /\ [host |-> ica, bind |-> MntInputs, mode |-> a.inputs_mode]
                   \in Entries(f.mounts)
              /\ [host |-> oca, bind |-> MntOutputs, mode |-> a.outputs_mode]
                   \in Entries(f.mounts)

\* a shared-filesystem call whose inputs and outputs have the same ancestor
\* has been mapped
C4_Witness ==
  \E c \in CallIds :
    /\ frame[c].backend = "ex_singularity_slurm" /\ Mapped(c) /\ BothGiven(c)
    /\ InputAncestor(c) = OutputAncestor(c)
    /\ \E k \in DOMAIN frame[c].args.input_paths :
         StartsWith(frame[c].container_paths[k], MntOutputs)

CmdAsClaimed == <<"c", "a", "t", " ", "/", "m", "n", "t", "/", "i", "n", "p", "u", "t", "s", "/", "x", ".", "t", "x", "t", " ", ">", " ", "/", "m", "n", "t", "/", "o", "u", "t", "p", "u", "t", "s", "/", "o", "u", "t", "/", "y", ".", "t", "x", "t">>

CmdAsRendered == <<"c", "a", "t", " ", "/", "m", "n", "t", "/", "i", "n", "p", "u", "t", "s", "/", "x", ".", "t", "x", "t", " ", ">", " ", "/", "m", "n", "t", "/", "o", "u", "t", "p", "u", "t", "s", "/", "y", ".", "t", "x", "t">>

CInX == <<"/", "m", "n", "t", "/", "i", "n", "p", "u", "t", "s", "/", "x", ".", "t", "x", "t">>  \* "/mnt/inputs/x.txt"

COutOutY == <<"/", "m", "n", "t", "/", "o", "u", "t", "p", "u", "t", "s", "/", "o", "u", "t", "/", "y", ".", "t", "x", "t">>  \* "/mnt/outputs/out/y.txt"

COutY == <<"/", "m", "n", "t", "/", "o", "u", "t", "p", "u", "t", "s", "/", "y", ".", "t", "x", "t">>  \* "/mnt/outputs/y.txt"

\* the local-engine call of the end-to-end example, past its rendering
Example(c) ==
  /\ frame[c].backend = "ex_docker"
  /\ frame[c].pc \in {"docker_run", "returned", "raised"}
  /\ frame[c].args.command = TplCat
  /\ frame[c].args.input_paths = (Ka :> PDataX)
  /\ frame[c].args.output_paths = (Kb :> PDataOutY)
  /\ frame[c].args.extra_params = EmptyDict

\* C5 as stated: inputs {a: /data/x.txt}, outputs {b: /data/out/y.txt} and
\* "cat ${a} > ${b}" on the local engine give the container paths
\* {a: /mnt/inputs/x.txt, b: /mnt/outputs/out/y.txt} and the command
\* "cat /mnt/inputs/x.txt > /mnt/outputs/out/y.txt".
C5_ExampleAsClaimed ==
  \A c \in CallIds :
    Example(c) => /\ frame[c].container_paths = (Ka :> CInX) @@ (Kb :> COutOutY)
                  /\ frame[c].rendered = CmdAsClaimed

\* C5 amended: the outputs are mapped under their own common ancestor
\* /data/out, so the container paths are {a: /mnt/inputs/x.txt,
\* b: /mnt/outputs/y.txt} and the command is
\* "cat /mnt/inputs/x.txt > /mnt/outputs/y.txt".
C5_ExampleAsRendered ==
  \A c \in CallIds :
    Example(c) => /\ frame[c].pc # "raised"
                  /\ frame[c].container_paths = (Ka :> CInX) @@ (Kb :> COutY)
                  /\ frame[c].rendered = CmdAsRendered

\* the example call has handed its command to the container engine
C5_Witness ==
  \E c \in CallIds :
    Example(c) /\ frame[c].pc = "returned" /\ "containers.run" \in Ops(frame[c])

\* the rest of cp after the base and the separator that follows it
Below(cp, base) == LStrip(Drop(cp, Len(base)), Sep)

ClimbsOut(rel) == StartsWith(rel, DotDot)

\* C6: for every non-empty path set and every container base B,
\* map_paths_to_container keeps the key set, every container path starts
\* with B and goes on, after the separator, with the relative path of the
\* host path from the returned common ancestor, and for every host path
\* below that ancestor the relative path of the container path from B is
\* that same relative path.
C6_PathMappingCorrect ==
  mapOut.done =>
    /\ DOMAIN mapOut.container_paths = DOMAIN mapIn.paths
    /\ \A k \in DOMAIN mapIn.paths :
         LET cp == mapOut.container_paths[k]
             B == mapIn.container_base_path
             rel == RelPath(mapIn.paths[k], mapOut.common_ancestor, mapIn.cwd)
         IN /\ StartsWith(cp, B)
            /\ Len(cp) > Len(B)
            /\ EndsWith(B, <<Sep>>) \/ cp[Len(B) + 1] = Sep
            /\ Below(cp, B) = rel
            /\ ~ClimbsOut(rel) => RelPath(cp, B, mapIn.cwd) = rel

\* two paths at different depths have been mapped under /mnt/inputs
C6_Witness ==
  /\ mapOut.done
  /\ mapIn.paths = (Ka :> PDataX) @@ (Kb :> PDataOutY)
  /\ mapIn.container_base_path = MntInputs
  /\ mapOut.common_ancestor = <<"/", "d", "a", "t", "a">>
  /\ mapOut.container_paths[Kb] = <<"/", "m", "n", "t", "/", "i", "n", "p", "u", "t", "s", "/", "o", "u", "t", "/", "y", ".", "t", "x", "t">>

\* the placeholders of the command templates
Needs(command) ==
  IF command \in {TplCat, TplEcho} THEN {Ka, Kb}
  ELSE IF command = TplRun THEN {Kp, Ka}
  ELSE {}

\* the keys the caller gave a value for
Given(c) ==
  DOMAIN frame[c].args.input_paths \cup DOMAIN frame[c].args.output_paths
    \cup DOMAIN frame[c].args.extra_params

Unbound(c) == Needs(frame[c].args.command) \ Given(c)

Placeholder(k) == <<"$", "{">> \o k \o <<"}">>

RunOps == {"containers.run", "singularity exec"}

EchoLenient == <<"e", "c", "h", "o", " ", "/", "x", " ", "$", "{", "b", "}">>  \* "echo /x ${b}"

\* C7: a call of ex_docker or ex_singularity_slurm whose command names a
\* placeholder that neither the paths nor the extra parameters bind never
\* runs a container and ends, once it has rendered, by raising KeyError; a
\* call of ex_aws_batch with such a command raises no KeyError and submits
\* a command in which the placeholder stands verbatim: "echo ${a} ${b}"
\* with only a bound, to /x, is submitted as "echo /x ${b}".
C7_TemplateStrictness ==
  \A c \in CallIds :
    LET f == frame[c]
    IN /\ (IsLocal(c) /\ Unbound(c) # {}) =>
            /\ f.pc \notin {"docker_run", "sing_exec", "returned"}
            /\ Ops(f) \cap RunOps = {}
            /\ (f.pc = "raised" /\ f.outcome # "OSError") => f.exc = "KeyError"
       /\ (IsBatch(c) /\ Unbound(c) # {}) =>
            /\ f.exc # "KeyError"
            /\ "submit_job" \in Ops(f) =>
                 /\ \A k \in Unbound(c) : FindSub(f.rendered, Placeholder(k)) > 0
                 /\ f.container_command_list.command = f.rendered
                 /\ (f.args.command = TplEcho /\ Given(c) = {Ka, Kc}
                       /\ f.args.extra_params = (Ka :> ValX))
                      => f.rendered = EchoLenient

\* the first call, on "echo ${a} ${b}" with only a bound, has ended and the
\* second, on the same command, has raised KeyError in ex_docker or has
\* submitted "echo /x ${b}" from ex_aws_batch and seen the job succeed
C7_Witness ==
  \E c \in CallIds :
    /\ c > 1
    /\ frame[c].args.command = TplEcho
    /\ frame[c].args.extra_params = (Ka :> ValX)
    /\ Unbound(c) = {Kb}
    /\ \/ /\ frame[c].backend = "ex_docker" /\ frame[c].pc = "raised"
          /\ frame[c].exc = "KeyError"
       \/ /\ frame[c].backend = "ex_aws_batch" /\ frame[c].pc = "returned"
          /\ frame[c].rendered = EchoLenient

\* the call has rendered its command or failed to
RenderDone(c) ==
  \/ frame[c].rendered # <<>>
  \/ IsLocal(c) /\ frame[c].pc = "raised" /\ frame[c].exc \in {"KeyError", "ValueError"}

\* C8: in every backend the command is rendered with the container paths
\* merged with the extra parameters, the extra parameters winning: a call
\* whose placeholders are all bound by the paths or the extra parameters
\* renders, and what it renders is the command with every placeholder
\* replaced from that merged map.
C8_MergedSubstitutionMap ==
  \A c \in CallIds :
    (RenderDone(c) /\ Unbound(c) = {}) =>
      /\ frame[c].pc # "raised" \/ frame[c].exc \notin {"KeyError", "ValueError"}
      /\ frame[c].rendered =
           Render(frame[c].args.command,
                  Update(frame[c].container_paths, frame[c].args.extra_params),
                  FALSE).out

\* C9: once ex_docker has rendered its command the run never raises: the
\* call returns (0, stdout, "") when the run succeeds and (-1, "", "") when
\* the container exits non-zero, the image is missing, the engine API fails
\* or anything else is raised.
C9_DockerResultNormalized ==
  \A c \in CallIds :
    frame[c].backend = "ex_docker" =>
      /\ "containers.run" \in Ops(frame[c]) =>
           /\ frame[c].pc = "returned"
           /\ frame[c].exc = ""
           /\ frame[c].outcome \in DockerOutcomes
           /\ frame[c].ret = IF frame[c].outcome = "ok"
                             THEN <<0, StdoutA, <<>>>>
                             ELSE <<-1, <<>>, <<>>>>
      /\ frame[c].pc = "raised" => frame[c].rendered = <<>>
      /\ frame[c].pc = "returned" => "containers.run" \in Ops(frame[c])

\* a call of ex_docker has returned after the container exited non-zero
C9_Witness ==
  \E c \in CallIds :
    /\ frame[c].backend = "ex_docker" /\ frame[c].pc = "returned"
    /\ frame[c].outcome = "ContainerError"
    /\ frame[c].ret = <<-1, <<>>, <<>>>>

KnownEngines == {"docker", "aws_batch", "singularity_slurm"}

\* the steps and the operations of each backend
PcsOf(backend) ==
  IF backend = "ex_docker" THEN {"ex_docker", "docker_run"}
  ELSE IF backend = "ex_singularity_slurm"
  THEN {"ex_singularity_slurm", "sing_exists", "sing_getcwd", "sing_chdir",
        "sing_pull", "sing_restore", "sing_render", "sing_exec"}
  ELSE IF backend = "ex_aws_batch"
  THEN {"ex_aws_batch", "batch_upload", "batch_describe", "batch_register",
        "batch_submit", "batch_poll", "batch_download_out", "batch_download_in",
        "batch_delete"}
  ELSE {}

OpsOf(backend) ==
  IF backend = "ex_docker" THEN {"containers.run"}
  ELSE IF backend = "ex_singularity_slurm"
  THEN {"chdir", "singularity pull", "singularity exec"}
  ELSE IF backend = "ex_aws_batch"
  THEN {"upload_file", "describe_job_definitions", "register_job_definition",
        "submit_job", "download_file", "delete_object"}
  ELSE {}

Started(c) == frame[c].pc \notin {"idle", "ended"}

\* C10: a call of ex on a descriptor with one of the three known engines
\* runs the backend of that engine and no other, on the arguments of the
\* call unchanged; on any other engine it raises at once and runs nothing.
C10_DispatchFacade ==
  \A c \in CallIds :
    Started(c) =>
      LET f == frame[c]
          e == containerinfo.engine
      IN /\ e = "docker" => f.backend = "ex_docker"
         /\ e = "aws_batch" => f.backend = "ex_aws_batch"
         /\ e = "singularity_slurm" => f.backend = "ex_singularity_slurm"
         /\ e \in KnownEngines =>
              /\ f.pc \in PcsOf(f.backend) \cup {"returned", "raised"}
              /\ Ops(f) \subseteq OpsOf(f.backend)
              /\ f.command = f.args.command
              /\ f.input_paths = f.args.input_paths
              /\ f.output_paths = f.args.output_paths
              /\ f.extra_params = f.args.extra_params
              /\ f.inputs_mode = f.args.inputs_mode
              /\ f.outputs_mode = f.args.outputs_mode
         /\ e \notin KnownEngines =>
              /\ f.pc = "raised" /\ f.exc = "Exception"
              /\ f.backend = "" /\ f.trace = <<>> /\ f.ret = <<>>

\* after a first call has ended, a second call on the shared-filesystem
\* engine has reached the exec step of its backend with its arguments
C10_Witness ==
  \E c \in CallIds :
    /\ c > 1
    /\ containerinfo.engine = "singularity_slurm"
    /\ frame[c].pc = "sing_exec"
    /\ frame[c].args.output_paths # EmptyDict
    /\ frame[c].output_paths = frame[c].args.output_paths

\* the positions of the trace of f at which op was called
At(f, op) == {i \in 1..Len(f.trace) : f.trace[i].op = op}

Submitted(c) == IsBatch(c) /\ frame[c].job_submission_id # <<>>

\* C11: a cloud-batch call that sees its job FAILED raises an error that
\* carries the statusReason of the job and downloads nothing, neither
\* before nor after; a call that returns has seen its job SUCCEEDED.
C11_FailureBranch ==
  \A c \in CallIds :
    Submitted(c) =>
      LET f == frame[c]
          job == jobs[f.job_submission_id]
      IN /\ f.job_status = "FAILED" =>
              /\ f.pc = "raised" /\ f.exc = "Exception"
              /\ job.status = "FAILED"
              /\ f.exc_arg \in FailReasons /\ f.exc_arg = job.statusReason
         /\ job.status = "FAILED" =>
              /\ f.pc \in {"batch_poll", "raised"}
              /\ At(f, "download_file") = {}
         /\ f.pc = "returned" => f.job_status = "SUCCEEDED" /\ job.status = "SUCCEEDED"

\* a call with a local output to fetch has raised on a job that FAILED
\* with the reason "exit"
C11_Witness ==
  \E c \in CallIds :
    /\ Submitted(c) /\ frame[c].pc = "raised"
    /\ frame[c].job_status = "FAILED" /\ frame[c].exc_arg = ReasonExit
    /\ frame[c].need_s3_downloads # {}

\* the keys of a path dict whose path is local: scheme file or none
LocalKeys(paths) ==
  {k \in DOMAIN paths : urlsplit(paths[k]).scheme \in {SchemeFile, <<>>}}

LocalPath(path) == urlsplit(path).path

\* the scratch directory of call c ending in dir, "/in/" or "/out/"
ScratchDir(c, dir) == containerinfo.aws_s3_scratch_loc \o run_uuid(c) \o dir

\* the downloads of f into filename
DownloadsTo(f, filename) ==
  {i \in At(f, "download_file") : f.trace[i].arg.Filename = filename}

\* the downloads of f of the object at url
DownloadsOf(f, url) ==
  {i \in At(f, "download_file") :
     /\ f.trace[i].arg.Bucket = s3_object(url).Bucket
     /\ f.trace[i].arg.Key = s3_object(url).Key}

\* the job has succeeded and the call is past its downloads
DownloadsDone(c) ==
  Submitted(c) /\ frame[c].job_status = "SUCCEEDED"
    /\ frame[c].pc \in {"batch_delete", "returned"}

\* C12: once the job has SUCCEEDED and the downloads are done, every local
\* output has been downloaded once, to its original local path, from the
\* object under {scratch}{runId}/out/ that the job was told to upload it
\* to; every local input has been downloaded once, to its original path,
\* from the object under {scratch}{runId}/in/ it was uploaded to, when
\* inputs_mode is rw, and not at all otherwise; nothing else is downloaded.
C12_RoundTripStaging ==
  \A c \in CallIds :
    DownloadsDone(c) =>
      LET f == frame[c]
          outs == LocalKeys(f.args.output_paths)
          ins == LocalKeys(f.args.input_paths)
          rw == f.args.inputs_mode = ModeRw
      IN /\ \A k \in outs :
              /\ StartsWith(f.s3_output_paths[k], ScratchDir(c, DirOut))
              /\ EndsWith(f.container_command_list.UF[k],
                          ColonColon \o f.s3_output_paths[k])
              /\ Cardinality(DownloadsOf(f, f.s3_output_paths[k])) = 1
              /\ DownloadsOf(f, f.s3_output_paths[k])
                   \subseteq DownloadsTo(f, LocalPath(f.args.output_paths[k]))
         /\ \A k \in ins :
              /\ StartsWith(f.s3_input_paths[k], ScratchDir(c, DirIn))
              /\ Cardinality(DownloadsOf(f, f.s3_input_paths[k])) = (IF rw THEN 1 ELSE 0)
              /\ DownloadsOf(f, f.s3_input_paths[k])
                   \subseteq DownloadsTo(f, LocalPath(f.args.input_paths[k]))
         /\ Cardinality(At(f, "download_file"))
              = Cardinality(outs) + (IF rw THEN Cardinality(ins) ELSE 0)

\* a call with a local and an s3 input, a local and an s3 output and
\* read-write inputs has returned after two downloads
C12_Witness ==
  \E c \in CallIds :
    /\ DownloadsDone(c) /\ frame[c].pc = "returned"
    /\ frame[c].args.inputs_mode = ModeRw
    /\ frame[c].args.input_paths = (Ka :> PFileX) @@ (Kc :> PS3In)
    /\ frame[c].args.output_paths = (Ka :> PDY) @@ (Kb :> PS3Out)
    /\ Cardinality(At(frame[c], "download_file")) = 2

\* every path of the call has the scheme s3, file or none
SchemesOk(c) ==
  /\ \A k \in DOMAIN frame[c].args.input_paths :
       urlsplit(frame[c].args.input_paths[k]).scheme \in {SchemeS3, SchemeFile, <<>>}
  /\ \A k \in DOMAIN frame[c].args.output_paths :
       urlsplit(frame[c].args.output_paths[k]).scheme \in {SchemeS3, SchemeFile, <<>>}

\* C13: a cloud-batch call with supported schemes and no local output (all
\* outputs on s3, or none) does not fail in the classification of its
\* outputs: it raises no ValueError.
C13_NoLocalOutputProceeds ==
  \A c \in CallIds :
    (IsBatch(c) /\ SchemesOk(c) /\ LocalKeys(frame[c].args.output_paths) = {}
       /\ frame[c].pc = "raised")
    => frame[c].exc # "ValueError"

JobDefOps == {"describe_job_definitions", "register_job_definition", "submit_job"}

BadInputScheme(c) ==
  \E k \in DOMAIN frame[c].args.input_paths :
    urlsplit(frame[c].args.input_paths[k]).scheme \notin {SchemeS3, SchemeFile, <<>>}

\* C14: a cloud-batch call with a path whose scheme is not s3, file or
\* empty never looks up or registers a job definition and never submits a
\* job; it ends by raising, with ValueError unless an upload failed first,
\* and for a bad input before any call to a service; no upload is repeated.
C14_UnsupportedScheme ==
  \A c \in CallIds :
    (IsBatch(c) /\ ~SchemesOk(c)) =>
      LET f == frame[c]
      IN /\ f.pc \in {"ex_aws_batch", "batch_upload", "raised"}
         /\ Ops(f) \cap JobDefOps = {}
         /\ RegisteredBy(c) = {}
         /\ f.job_submission_id = <<>>
         /\ f.pc = "raised" => f.exc \in {"ValueError", "TransferError"}
         /\ (f.pc = "raised" /\ f.todo = {}) => f.exc = "ValueError"
         /\ (BadInputScheme(c) /\ f.pc # "ex_aws_batch") =>
              f.pc = "raised" /\ f.exc = "ValueError" /\ f.trace = <<>>
         /\ Cardinality(At(f, "upload_file"))
              <= Cardinality(LocalKeys(f.args.input_paths))

\* a call with an ftp output has raised ValueError after uploading its
\* input
C14_Witness ==
  \E c \in CallIds :
    /\ IsBatch(c) /\ frame[c].pc = "raised" /\ frame[c].exc = "ValueError"
    /\ frame[c].args.output_paths = (Kb :> PFtp)
    /\ At(frame[c], "upload_file") # {}

Terminal == {"SUCCEEDED", "FAILED"}

\* the job of call c is in a terminal state
JobOver(c) == Submitted(c) /\ jobs[frame[c].job_submission_id].status \in Terminal

\* a step taken while call c waits on a job that is not over leaves the
\* call in its polling loop: it calls nothing, returns nothing, raises
\* nothing
PollWaits(c) ==
  (Submitted(c) /\ frame[c].pc = "batch_poll" /\ ~JobOver(c)) =>
    /\ frame'[c].pc = "batch_poll"
    /\ frame'[c].trace = frame[c].trace
    /\ frame'[c].exc = "" /\ frame'[c].ret = <<>>

\* C15: after submission a cloud-batch call stays in its polling loop,
\* without returning, raising or downloading, for as long as the job is
\* not SUCCEEDED or FAILED, so that it never ends if the job never does;
\* with fair scheduling of the call, once the job is SUCCEEDED or FAILED
\* the call eventually ends.
C15_SynchronousWait ==
  /\ [][\A c \in CallIds : PollWaits(c)]_vars
  /\ \A c \in CallIds : JobOver(c) ~> (frame[c].pc \in Ended)

\* a call that polled while its job was RUNNING is still in the loop and
\* the job has since SUCCEEDED
C15_Witness ==
  \E c \in CallIds :
    /\ Submitted(c) /\ frame[c].pc = "batch_poll"
    /\ frame[c].job_status = "RUNNING"
    /\ jobs[frame[c].job_submission_id].status = "SUCCEEDED"

\* the objects call c has uploaded before position n of its trace
UploadedBefore(f, n) ==
  {f.trace[i].arg : i \in {j \in At(f, "upload_file") : j < n}}

\* the downloads the call owes once its job has succeeded
DownloadsOwed(f) ==
  Cardinality(LocalKeys(f.args.output_paths))
    + (IF f.args.inputs_mode = ModeRw
       THEN Cardinality(LocalKeys(f.args.input_paths)) ELSE 0)

\* C16: a cloud-batch call submits at most one job; when it submits, every
\* local input has been uploaded to its scratch object, no upload follows,
\* and the batch service holds a job definition under the name submitted,
\* which the call has looked up before; it deletes a staged input only
\* after it has seen the job SUCCEEDED and made every download it owes.
C16_SubmitAndCleanupOrder ==
  \A c \in CallIds :
    IsBatch(c) =>
      LET f == frame[c]
      IN /\ Cardinality(At(f, "submit_job")) <= 1
         /\ \A n \in At(f, "submit_job") :
              /\ \A k \in LocalKeys(f.args.input_paths) :
                   f.s3_input_paths[k] \in UploadedBefore(f, n)
              /\ \A i \in At(f, "upload_file") : i < n
              /\ f.trace[n].arg \in DefNames
              /\ \E i \in At(f, "describe_job_definitions") :
                   i < n /\ f.trace[i].arg = f.trace[n].arg
         /\ \A n \in At(f, "delete_object") :
              /\ f.job_status = "SUCCEEDED"
              /\ jobs[f.job_submission_id].status = "SUCCEEDED"
              /\ \A i \in At(f, "download_file") : i < n
              /\ \A i \in At(f, "submit_job") : i < n
              /\ Cardinality(At(f, "download_file")) = DownloadsOwed(f)

\* a call that registered its job definition has uploaded two inputs,
\* submitted, downloaded an output and the two inputs and deleted a
\* staged input
C16_Witness ==
  \E c \in CallIds :
    /\ IsBatch(c)
    /\ Cardinality(At(frame[c], "upload_file")) = 2
    /\ At(frame[c], "register_job_definition") # {}
    /\ At(frame[c], "submit_job") # {}
    /\ Cardinality(At(frame[c], "download_file")) = 3
    /\ At(frame[c], "delete_object") # {}

\* call c registered its definition before call d looked its own up
RegisteredBefore(c, d) == \E i \in RegisteredBy(c) : i <= frame[d].defs_seen

\* the lookup of call c found no definition under its name
SawNone(c) ==
  \A i \in DefsNamed(frame[c].job_def_name) : i > frame[c].defs_seen

\* C17: of two concurrent cloud-batch calls with the same image, role and
\* mount table, each registers a definition exactly when its own lookup
\* found none, whatever the other call did in between: if one registered
\* before the other looked up, the other registers nothing, and if both
\* have registered, both lookups came before both registrations.
C17_RegistrationRace ==
  \A c, d \in CallIds :
    (c # d /\ PastJobDef(c) /\ PastJobDef(d)
       /\ frame[c].job_def_name = frame[d].job_def_name)
    => /\ Cardinality(RegisteredBy(c)) <= 1
       /\ RegisteredBy(c) # {} <=> SawNone(c)
       /\ RegisteredBefore(c, d) => RegisteredBy(d) = {}
       /\ (RegisteredBy(c) # {} /\ RegisteredBy(d) # {}) =>
            \A i \in RegisteredBy(c) \cup RegisteredBy(d) :
              i > frame[c].defs_seen /\ i > frame[d].defs_seen

\* two concurrent calls have both found no definition and both
\* registered one under the same name
C17_Witness ==
  \E c, d \in CallIds :
    /\ c # d /\ PastJobDef(c) /\ PastJobDef(d)
    /\ frame[c].defs_seen = 0 /\ frame[d].defs_seen = 0
    /\ RegisteredBy(c) # {} /\ RegisteredBy(d) # {}
    /\ Cardinality(DefsNamed(frame[c].job_def_name)) = 2

\* the components of a path
Components(p) == Filter(Split(p, Sep), {<<>>})

\* directory a is path p or an ancestor of it, component by component
IsAncestorDir(a, p) ==
  /\ Len(Components(a)) <= Len(Components(p))
  /\ Take(Components(p), Len(Components(a))) = Components(a)

\* C18: for absolute paths, the common ancestor map_paths_to_container
\* returns is an ancestor directory, component by component, of every path
\* given, and no container path has a '..' component.
C18_ComponentWiseAncestor ==
  (mapOut.done /\ \A k \in DOMAIN mapIn.paths : IsAbs(mapIn.paths[k])) =>
    \A k \in DOMAIN mapIn.paths :
      /\ IsAncestorDir(mapOut.common_ancestor, AbsPath(mapIn.paths[k], mapIn.cwd))
      /\ \A i \in 1..Len(Components(mapOut.container_paths[k])) :
           Components(mapOut.container_paths[k])[i] # DotDot

IsSingularity(c) == frame[c].backend = "ex_singularity_slurm"

\* C19: when a shared-filesystem call that changed the working directory
\* has returned or raised, the working directory of the process is again
\* the one the call found.
C19_WorkingDirectoryRestored ==
  \A c \in CallIds :
    (IsSingularity(c) /\ frame[c].pc \in {"returned", "raised"}
       /\ At(frame[c], "chdir") # {})
    => os_cwd = frame[c].cwd

\* the cache file of the task's image
CacheLocation == img_location_of(containerinfo.container_cache, container)

\* the call has looked for the image in the cache
SingPastCheck(c) ==
  /\ IsSingularity(c)
  /\ frame[c].pc \notin {"ex_singularity_slurm", "sing_exists", "ended"}

\* the call found no image: it has read the working directory, or is
\* about to
Missed(f) == f.cwd # <<>> \/ f.pc = "sing_getcwd"

\* the step that looks for the image goes to the pull exactly when no file
\* is at the cache location, and only the branch of the pull reads the
\* working directory
CheckStep(c) ==
  /\ (IsSingularity(c) /\ frame[c].pc = "sing_exists" /\ frame'[c].pc # "sing_exists") =>
       /\ frame'[c].pc = (IF CacheLocation \in files THEN "sing_render" ELSE "sing_getcwd")
       /\ frame'[c].trace = frame[c].trace
       /\ os_cwd' = os_cwd
  /\ (IsSingularity(c) /\ frame'[c].pc # "ended" /\ frame'[c].cwd # frame[c].cwd) =>
       frame[c].pc = "sing_getcwd"

\* what the trace of a call past the check holds: no pull and no chdir on
\* a hit, one pull on a miss once the pull step is over, at most one exec,
\* on the cache location, after the pull
PullThenExec(c) ==
  LET f == frame[c]
      pulls == At(f, "singularity pull")
      execs == At(f, "singularity exec")
  IN /\ ~Missed(f) => pulls = {} /\ At(f, "chdir") = {}
     /\ Missed(f) =>
          Cardinality(pulls) =
            (IF f.pc \in {"sing_getcwd", "sing_chdir", "sing_pull"} THEN 0 ELSE 1)
     /\ Cardinality(execs) <= 1
     /\ \A e \in execs :
          /\ f.trace[e].arg = CacheLocation
          /\ \A p \in pulls : p < e
          /\ \A i \in At(f, "chdir") : i < e

\* C20 as stated: the pull is invoked exactly when the check finds no file
\* at the cache location, a hit pulls nothing and changes no directory, and
\* every call that has returned or raised has issued exactly one exec, on
\* the cache location, after the pull.
C20_ExecOncePerCall ==
  /\ [][\A c \in CallIds : CheckStep(c)]_vars
  /\ [](\A c \in CallIds :
          SingPastCheck(c) =>
            /\ PullThenExec(c)
            /\ frame[c].pc \in {"returned", "raised"} =>
                 Cardinality(At(frame[c], "singularity exec")) = 1)

\* C20 amended: the pull is invoked exactly when the check finds no file
\* at the cache location, a hit pulls nothing and changes no directory, and
\* a call issues at most one exec, on the cache location, after the pull:
\* exactly one when it returns, none when the pull or the rendering raised.
C20_CacheProtocol ==
  /\ [][\A c \in CallIds : CheckStep(c)]_vars
  /\ [](\A c \in CallIds :
          SingPastCheck(c) =>
            /\ PullThenExec(c)
            /\ frame[c].pc = "returned" =>
                 Cardinality(At(frame[c], "singularity exec")) = 1
            /\ (frame[c].pc = "raised" /\ frame[c].outcome # "OSError") =>
                 At(frame[c], "singularity exec") = {}
            /\ (frame[c].pc = "raised" /\ frame[c].rendered = <<>>) =>
                 At(frame[c], "singularity exec") = {})

\* a call has returned after a hit: it found the image an earlier call
\* pulled, and ran its one exec without a pull or a chdir
C20_Witness ==
  \E c \in CallIds :
    /\ SingPastCheck(c) /\ frame[c].pc = "returned"
    /\ ~Missed(frame[c])
    /\ CacheLocation \in files
    /\ Cardinality(At(frame[c], "singularity exec")) = 1

\* the container directory of a path of the cloud-batch engine: base is
\* /mnt/inputs/ or /mnt/outputs/, followed by s3/ or fs/ after the scheme
ClassDir(base, path) ==
  base \o (IF urlsplit(path).scheme = SchemeS3 THEN <<"s", "3", Sep>> ELSE <<"f", "s", Sep>>)

\* s is left \o "::" \o right, with right starting with prefix
Directive(s, left, prefix) ==
  /\ StartsWith(s, left \o ColonColon \o prefix)
  /\ Len(s) > Len(left \o ColonColon \o prefix)

\* C21: the wrapper command of a submitted cloud-batch call carries one
\* -DF per input key, source::containerPath::mode with the container path
\* under /mnt/inputs/s3/ or /mnt/inputs/fs/, and one -UF per output key,
\* containerPath::destination with the container path under
\* /mnt/outputs/s3/ or /mnt/outputs/fs/, also for a key that is both an
\* input and an output.
C21_TransferDirectives ==
  \A c \in CallIds :
    Submitted(c) =>
      LET f == frame[c]
          ccl == f.container_command_list
      IN /\ DOMAIN ccl.DF = DOMAIN f.args.input_paths
         /\ DOMAIN ccl.UF = DOMAIN f.args.output_paths
         /\ \A k \in DOMAIN f.args.input_paths :
              /\ Directive(ccl.DF[k], f.s3_input_paths[k],
                           ClassDir(MntInputs \o <<Sep>>, f.args.input_paths[k]))
              /\ EndsWith(ccl.DF[k], ColonColon \o f.args.inputs_mode)
         /\ \A k \in DOMAIN f.args.output_paths :
              /\ StartsWith(ccl.UF[k], ClassDir(MntOutputs \o <<Sep>>, f.args.output_paths[k]))
              /\ EndsWith(ccl.UF[k], ColonColon \o f.s3_output_paths[k])
              /\ Len(ccl.UF[k]) > Len(ClassDir(MntOutputs \o <<Sep>>, f.args.output_paths[k]))
                                    + Len(ColonColon \o f.s3_output_paths[k])

\* every call is over, and the calls that missed the cache all got past
\* their pull: none was cut short by an exception of the pull
AllRestored ==
  \A c \in CallIds :
    /\ IsSingularity(c) /\ frame[c].pc \in {"returned", "raised"}
    /\ At(frame[c], "singularity pull") # {}
    /\ Cardinality(At(frame[c], "chdir")) = 2

\* the working directories the calls saved before changing it
SavedDirs == {frame[c].cwd : c \in CallIds}

Through(e, cp) ==
  IF IsAncestorDir(e.bind, NormPath(cp))
  THEN <<Components(e.host)
           \o Drop(Components(NormPath(cp)), Len(Components(e.bind)))>>
  ELSE <<>>

\* container path cp names host path p through the mount table
ResolvesTo(mounts, cp, p, cwd) ==
  \E i \in 1..Len(mounts) :
    Through(mounts[i], cp) = <<Components(AbsPath(p, cwd))>>

\* C23: in ex_docker and ex_singularity_slurm, for every input and every
\* output of the call, the container path substituted for its key names
\* its host path through the final mount table of the call.
C23_MountTableSound ==
  \A c \in CallIds :
    Mapped(c) =>
      LET f == frame[c]
      IN /\ \A k \in DOMAIN f.args.input_paths :
              ResolvesTo(f.mounts, f.container_paths[k], f.args.input_paths[k], os_cwd)
         /\ \A k \in DOMAIN f.args.output_paths :
              ResolvesTo(f.mounts, f.container_paths[k], f.args.output_paths[k], os_cwd)

\* the mounts call c derives from its own outputs and inputs
OwnMounts(c) ==
  (IF DOMAIN frame[c].args.output_paths = {} THEN {}
   ELSE {[host |-> OutputAncestor(c), bind |-> MntOutputs,
          mode |-> frame[c].args.outputs_mode]})
  \cup
  (IF DOMAIN frame[c].args.input_paths = {} THEN {}
   ELSE {[host |-> InputAncestor(c), bind |-> MntInputs,
          mode |-> frame[c].args.inputs_mode]})

\* no step of a call changes the descriptor: it changes only between
\* calls, when the caller declares the next task
DescriptorKept ==
  containerinfo' # containerinfo =>
    \A c \in CallIds : frame[c].pc \in {"idle", "ended"}

\* C24: a local or shared-filesystem call leaves the descriptor as the
\* caller declared it: no step of a call changes it, its mount table is
\* one the caller declared, and the mount table of a call holds nothing
\* but the descriptor's mounts and the mounts derived from the call's own
\* inputs and outputs.
C24_DescriptorUntouched ==
  /\ [][DescriptorKept]_vars
  /\ [](/\ containerinfo.mounts \in MountTables
        /\ \A c \in CallIds :
             Mapped(c) =>
               /\ frame[c].info_mounts = containerinfo.mounts
               /\ Entries(frame[c].mounts)
                    \subseteq Entries(containerinfo.mounts) \cup OwnMounts(c))

\* a later call on the same descriptor as an earlier local call that is
\* over has been mapped, and its table holds a derived mount next to the
\* descriptor's
C24_Witness ==
  \E c1, c2 \in CallIds :
    /\ c1 < c2 /\ IsLocal(c1) /\ frame[c1].pc = "ended"
    /\ frame[c1].info_mounts = containerinfo.mounts
    /\ Mapped(c2)
    /\ Len(frame[c2].mounts) > Len(containerinfo.mounts)

====
